---- MODULE Spec2Model ----
(***************************************************************************)
(* Symbol index of the code-navigation service                             *)
(* (src-tauri/src/code_navigation.rs): the dual-map SymbolIndex, the       *)
(* definition indexer, the lookups, and the versioned on-disk snapshot.    *)
(*                                                                         *)
(* Spec  : every command runs to completion (one action per command).      *)
(* SpecC : the commands of concurrent invocations interleave at the        *)
(*         RwLock and at the file-system calls.                            *)
(***************************************************************************)
EXTENDS Integers, Sequences, FiniteSets, TLC

VARIABLES
    index,      \* CodeNavigationService.index : [definitions, file_definitions]
    disk,       \* the code-index directory: file name -> JSON document or NoFile
    last,       \* the command that ran last: its arguments and its return value
    rt,         \* progress of a save / clear_all / load sequence (history)
    lock,       \* CodeNavState.0, the RwLock: [writer, readers]
    task,       \* per concurrent invocation: position and locals
    committed,  \* the index as the last write-lock holder left it (history)
    project,    \* the source files on disk that the reference search walks
    search      \* a search_content call in progress: its shared state and workers

vars == <<index, disk, last, rt, lock, task, committed, project, search>>

(***************************************************************************)
(* Bounds and sample inputs                                                *)
(***************************************************************************)
MaxVersion == 3          \* snapshot files found on disk carry a version in 1..MaxVersion

INDEX_VERSION == 2

None == "None"

Files == {"a.src", "b.src"}
Names == {"foo", "bar"}
RootPaths == {"/project/a", "/project/twin"}

\* Language identifiers handed to the commands; "text" has no parser.
Langs == {"python", "typescript", "javascript", "text"}

(***************************************************************************)
(* Syntax engine: grammars, definition patterns, captures                  *)
(***************************************************************************)

\* init_languages: the languages with a parser (and a definition query).
RegisteredLangs ==
    {"python", "rust", "go", "c", "cpp", "java", "typescript", "javascript"}

\* The grammar a language identifier is registered with.
Grammar(lang_id) ==
    CASE lang_id = "python" -> "python"
      [] lang_id = "rust" -> "rust"
      [] lang_id = "go" -> "go"
      [] lang_id = "c" -> "c"
      [] lang_id = "cpp" -> "cpp"
      [] lang_id = "java" -> "java"
      [] lang_id \in {"typescript", "javascript"} -> "tsx"
      [] OTHER -> None

AnyParent == "*"

Pat(node, parent, tag) == [node |-> node, parent |-> parent, tag |-> tag]

\* get_definition_query: the alternatives of a language's definition pattern, in
\* source order.  An alternative names the defining node, the node that must
\* enclose it (AnyParent when the alternative does not say) and the capture tag,
\* written as its dot-separated words.
get_definition_query(lang_id) ==
    CASE lang_id = "python" ->
           << Pat("function_definition", AnyParent, <<"function", "definition">>),
              Pat("class_definition", AnyParent, <<"class", "definition">>) >>
      [] lang_id = "rust" ->
           << Pat("function_item", AnyParent, <<"function", "definition">>),
              Pat("struct_item", AnyParent, <<"struct", "definition">>),
              Pat("enum_item", AnyParent, <<"enum", "definition">>),
              Pat("trait_item", AnyParent, <<"trait", "definition">>),
              Pat("const_item", AnyParent, <<"const", "definition">>),
              Pat("static_item", AnyParent, <<"static", "definition">>),
              Pat("type_item", AnyParent, <<"type", "definition">>) >>
      [] lang_id = "go" ->
           << Pat("function_declaration", AnyParent, <<"function", "definition">>),
              Pat("method_declaration", AnyParent, <<"method", "definition">>),
              Pat("type_spec", "type_declaration", <<"type", "definition">>) >>
      [] lang_id = "c" ->
           << Pat("function_definition", AnyParent, <<"function", "definition">>),
              Pat("struct_specifier", AnyParent, <<"struct", "definition">>) >>
      [] lang_id = "cpp" ->
           << Pat("function_definition", AnyParent, <<"function", "definition">>),
              Pat("function_definition_qualified", AnyParent, <<"function", "definition">>),
              Pat("struct_specifier", AnyParent, <<"struct", "definition">>),
              Pat("class_specifier", AnyParent, <<"class", "definition">>) >>
      [] lang_id = "java" ->
           << Pat("method_declaration", AnyParent, <<"method", "definition">>),
              Pat("class_declaration", AnyParent, <<"class", "definition">>),
              Pat("interface_declaration", AnyParent, <<"interface", "definition">>) >>
      [] lang_id \in {"typescript", "javascript"} ->
           << Pat("function_declaration", AnyParent, <<"function", "definition">>),
              Pat("function_declaration", "export_statement", <<"function", "definition">>),
              Pat("class_declaration", AnyParent, <<"class", "definition">>),
              Pat("class_declaration", "export_statement", <<"class", "definition">>),
              Pat("interface_declaration", AnyParent, <<"interface", "definition">>),
              Pat("interface_declaration", "export_statement", <<"interface", "definition">>),
              Pat("type_alias_declaration", AnyParent, <<"type", "definition">>),
              Pat("type_alias_declaration", "export_statement", <<"type", "definition">>),
              Pat("enum_declaration", AnyParent, <<"enum", "definition">>),
              Pat("enum_declaration", "export_statement", <<"enum", "definition">>),
              Pat("method_definition", AnyParent, <<"method", "definition">>),
              Pat("lexical_declaration", "program", <<"const", "definition">>),
              Pat("lexical_declaration", "export_statement", <<"const", "definition">>) >>
      [] OTHER -> << >>

\* capture_name.contains(word)
Contains(capture_name, word) == \E i \in DOMAIN capture_name : capture_name[i] = word

\* Mutant of get_symbol_kind: the class branch is missing.
get_symbol_kind_without_class(capture_name) ==
    IF Contains(capture_name, "function") THEN "function"
    ELSE IF Contains(capture_name, "struct") THEN "struct"
    ELSE IF Contains(capture_name, "enum") THEN "enum"
    ELSE IF Contains(capture_name, "trait") THEN "trait"
    ELSE IF Contains(capture_name, "interface") THEN "interface"
    ELSE IF Contains(capture_name, "method") THEN "method"
    ELSE IF Contains(capture_name, "type") THEN "type"
    ELSE IF Contains(capture_name, "const") THEN "const"
    ELSE IF Contains(capture_name, "static") THEN "static"
    ELSE "symbol"

get_symbol_kind(capture_name) ==
    IF Contains(capture_name, "function") THEN "function"
    ELSE IF Contains(capture_name, "class") THEN "class"
    ELSE IF Contains(capture_name, "struct") THEN "struct"
    ELSE IF Contains(capture_name, "enum") THEN "enum"
    ELSE IF Contains(capture_name, "trait") THEN "trait"
    ELSE IF Contains(capture_name, "interface") THEN "interface"
    ELSE IF Contains(capture_name, "method") THEN "method"
    ELSE IF Contains(capture_name, "type") THEN "type"
    ELSE IF Contains(capture_name, "const") THEN "const"
    ELSE IF Contains(capture_name, "static") THEN "static"
    ELSE "symbol"

\* Mutant of get_lang_family: cpp has a family of its own.
get_lang_family_cpp_apart(lang_id) ==
    CASE lang_id = "c" -> "c_family"
      [] lang_id = "cpp" -> "cpp"
      [] lang_id \in {"typescript", "javascript"} -> "js_family"
      [] lang_id \in {"python", "rust", "go", "java"} -> lang_id
      [] OTHER -> "unknown"

get_lang_family(lang_id) ==
    CASE lang_id \in {"c", "cpp"} -> "c_family"
      [] lang_id \in {"typescript", "javascript"} -> "js_family"
      [] lang_id = "python" -> "python"
      [] lang_id = "rust" -> "rust"
      [] lang_id = "go" -> "go"
      [] lang_id = "java" -> "java"
      [] OTHER -> "unknown"

Families == {get_lang_family(l) : l \in Langs}

\* A definition site of a source text: the name node (its text and its 0-based
\* start position), the node it names and that node's parent.
Site(name, node, parent, row, column) ==
    [name |-> name, node |-> node, parent |-> parent, row |-> row, column |-> column]

\* A source text: the grammar it is written in, whether the parser returns a
\* tree for it, and its definition sites in document order.
Source(grammar, parses, sites) == [grammar |-> grammar, parses |-> parses, sites |-> sites]

PyFoo     == Source("python", TRUE, << Site("foo", "function_definition", "module", 0, 4) >>)
PyFooBar  == Source("python", TRUE, << Site("foo", "function_definition", "module", 0, 4),
                                       Site("bar", "class_definition", "module", 1, 6) >>)
PyNoDefs  == Source("python", TRUE, << >>)
PyNoTree  == Source("python", FALSE, << Site("foo", "function_definition", "module", 0, 4) >>)
TsExpFoo  == Source("tsx", TRUE, << Site("foo", "function_declaration", "export_statement", 0, 16) >>)

Contents == {PyFoo, PyFooBar, PyNoDefs, PyNoTree, TsExpFoo}

\* The (content, lang_id) pairs handed to the indexer: a text with the language
\* of its grammar, or any text with a language that has no parser.
Indexable(content, lang_id) ==
    lang_id \notin RegisteredLangs \/ Grammar(lang_id) = content.grammar

\* Option<T>: the empty sequence is None, a one-element sequence is Some.
Some(x) == << x >>
IsNone(o) == o = << >>

\* parser.parse(content, None): Some(tree) or None
parse(content) == IF content.parses THEN Some(content.sites) ELSE << >>

Matches(pat, site) ==
    /\ pat.node = site.node
    /\ pat.parent \in {AnyParent, site.parent}

\* The captures of one site: one per alternative of the pattern that matches it.
RECURSIVE SiteCaptures(_, _, _)
SiteCaptures(query, site, i) ==
    IF i > Len(query) THEN << >>
    ELSE (IF Matches(query[i], site)
          THEN << [node |-> site, capture_name |-> query[i].tag] >>
          ELSE << >>)
         \o SiteCaptures(query, site, i + 1)

\* cursor.matches(query, tree.root_node(), source): every capture of the tree.
RECURSIVE captures(_, _)
captures(query, tree) ==
    IF tree = << >> THEN << >>
    ELSE SiteCaptures(query, Head(tree), 1) \o captures(query, Tail(tree))

SymbolInfo(capture, file_path, lang_family) ==
    [ name         |-> capture.node.name,
      kind         |-> get_symbol_kind(capture.capture_name),
      file_path    |-> file_path,
      lang_family  |-> lang_family,
      start_line   |-> capture.node.row + 1,
      start_column |-> capture.node.column + 1,
      end_line     |-> capture.node.row + 1,
      end_column   |-> capture.node.column + Len(capture.node.name) + 1 ]

\* The capture loop of index_file: the records of a parsed file, in match order.
extract_definitions(file_path, tree, lang_id) ==
    LET caps == captures(get_definition_query(lang_id), tree)
    IN  [i \in DOMAIN caps |-> SymbolInfo(caps[i], file_path, get_lang_family(lang_id))]

(***************************************************************************)
(* SymbolIndex operations (pure: index state -> index state)               *)
(***************************************************************************)
Range(s) == {s[i] : i \in DOMAIN s}

\* The sequences that list the elements of S once each (the iteration orders
\* of a HashSet, the arrival orders of parallel workers).
Orderings(S) == {s \in [1..Cardinality(S) -> S] : Range(s) = S}

EmptyIndex == [definitions |-> << >>, file_definitions |-> << >>]

Restrict(f, S) == [x \in S |-> f[x]]

Put(f, k, v) == [x \in DOMAIN f \cup {k} |-> IF x = k THEN v ELSE f[x]]

\* Mutant of clear_file: drops the whole definitions[name] list of every name
\* the file defines.
clear_file_whole_name(idx, file_path) ==
    IF file_path \notin DOMAIN idx.file_definitions THEN idx
    ELSE [ definitions |->
               Restrict(idx.definitions,
                        DOMAIN idx.definitions \ idx.file_definitions[file_path]),
           file_definitions |->
               Restrict(idx.file_definitions, DOMAIN idx.file_definitions \ {file_path}) ]

\* Mutant of clear_file: a name whose list becomes empty is kept.
clear_file_keeps_emptied_names(idx, file_path) ==
    IF file_path \notin DOMAIN idx.file_definitions THEN idx
    ELSE LET def_names == idx.file_definitions[file_path]
             touched == def_names \cap DOMAIN idx.definitions
             retain(n) == SelectSeq(idx.definitions[n], LAMBDA s : s.file_path # file_path)
         IN  [ definitions |->
                   [n \in DOMAIN idx.definitions |->
                       IF n \in touched THEN retain(n) ELSE idx.definitions[n]],
               file_definitions |->
                   Restrict(idx.file_definitions, DOMAIN idx.file_definitions \ {file_path}) ]

clear_file(idx, file_path) ==
    IF file_path \notin DOMAIN idx.file_definitions THEN idx
    ELSE LET def_names == idx.file_definitions[file_path]
             touched == def_names \cap DOMAIN idx.definitions
             retain(n) == SelectSeq(idx.definitions[n], LAMBDA s : s.file_path # file_path)
             keep == {n \in DOMAIN idx.definitions : n \in touched => retain(n) # << >>}
         IN  [ definitions |->
                   [n \in keep |-> IF n \in touched THEN retain(n) ELSE idx.definitions[n]],
               file_definitions |->
                   Restrict(idx.file_definitions, DOMAIN idx.file_definitions \ {file_path}) ]

\* Mutant of clear_all: only definitions is cleared.
clear_all_definitions_only(idx) ==
    [definitions |-> << >>, file_definitions |-> idx.file_definitions]

clear_all(idx) == EmptyIndex

\* definitions.entry(symbol.name).or_default().push(symbol), for each symbol in order
push_all(definitions, symbols) ==
    LET names == {symbols[i].name : i \in DOMAIN symbols}
        old(n) == IF n \in DOMAIN definitions THEN definitions[n] ELSE << >>
    IN  [n \in DOMAIN definitions \cup names |->
            old(n) \o SelectSeq(symbols, LAMBDA s : s.name = n)]

\* Mutant of insert_definitions: the reverse index is not written.
insert_definitions_no_reverse(idx, file_path, symbols) ==
    [ definitions |-> push_all(idx.definitions, symbols),
      file_definitions |-> idx.file_definitions ]

\* The insertion at the end of index_file and of each batch tuple.
insert_definitions(idx, file_path, symbols) ==
    LET defined_names == {symbols[i].name : i \in DOMAIN symbols}
    IN  [ definitions |-> push_all(idx.definitions, symbols),
          file_definitions |->
              IF defined_names # {}
              THEN Put(idx.file_definitions, file_path, defined_names)
              ELSE idx.file_definitions ]

\* Mutant of index_file: the file's earlier entries are not invalidated.
index_file_no_clear(idx, file_path, content, lang_id) ==
    IF lang_id \notin RegisteredLangs THEN idx
    ELSE IF IsNone(parse(content)) THEN idx
    ELSE insert_definitions(idx, file_path,
             extract_definitions(file_path, parse(content)[1], lang_id))

\* Mutant of index_file: the invalidation runs only once a tree was obtained.
index_file_clear_after_parse(idx, file_path, content, lang_id) ==
    IF lang_id \notin RegisteredLangs THEN idx
    ELSE IF IsNone(parse(content)) THEN idx
    ELSE insert_definitions(clear_file(idx, file_path), file_path,
             extract_definitions(file_path, parse(content)[1], lang_id))

index_file(idx, file_path, content, lang_id) ==
    LET cleared == clear_file(idx, file_path)
    IN  IF lang_id \notin RegisteredLangs THEN cleared
        ELSE IF IsNone(parse(content)) THEN cleared
        ELSE insert_definitions(cleared, file_path,
                 extract_definitions(file_path, parse(content)[1], lang_id))

\* ---- the batch indexer ----
\* One (file_path, content, lang_id) tuple of the batch argument.
FileArg(file_path, content, lang_id) ==
    [file_path |-> file_path, content |-> content, lang_id |-> lang_id]

\* Mutant of batch_extract: a skipped file is handed on with no definitions.
batch_extract_skipped_as_empty(file) ==
    IF file.lang_id \notin RegisteredLangs \/ IsNone(parse(file.content))
    THEN Some([definitions |-> << >>, defined_names |-> {}, file_path |-> file.file_path])
    ELSE LET definitions == extract_definitions(file.file_path,
                                parse(file.content)[1], file.lang_id)
         IN  Some([ definitions   |-> definitions,
                    defined_names |-> {definitions[i].name : i \in DOMAIN definitions},
                    file_path     |-> file.file_path ])

\* The closure of the parallel phase (lines 757-809): None for a skipped file.
batch_extract(file) ==
    IF file.lang_id \notin RegisteredLangs THEN << >>
    ELSE IF IsNone(parse(file.content)) THEN << >>
    ELSE LET definitions == extract_definitions(file.file_path,
                                parse(file.content)[1], file.lang_id)
         IN  Some([ definitions   |-> definitions,
                    defined_names |-> {definitions[i].name : i \in DOMAIN definitions},
                    file_path     |-> file.file_path ])

\* files.par_iter().filter_map(..).collect(): the tuples of the files that
\* were not skipped, in the order of the argument.
RECURSIVE par_filter_map(_)
par_filter_map(files) ==
    IF files = << >> THEN << >>
    ELSE batch_extract(Head(files)) \o par_filter_map(Tail(files))

\* Mutant of merge_result: the file's earlier entries are not cleared.
merge_result_no_clear(idx, result) ==
    [ definitions |-> push_all(idx.definitions, result.definitions),
      file_definitions |->
          IF result.defined_names # {}
          THEN Put(idx.file_definitions, result.file_path, result.defined_names)
          ELSE idx.file_definitions ]

\* One turn of the merge loop (lines 821-841).
merge_result(idx, result) ==
    LET cleared == clear_file(idx, result.file_path)
    IN  [ definitions |-> push_all(cleared.definitions, result.definitions),
          file_definitions |->
              IF result.defined_names # {}
              THEN Put(cleared.file_definitions, result.file_path, result.defined_names)
              ELSE cleared.file_definitions ]

\* code_nav_index_files_batch on an index: the parallel phase, then the merge
\* loop over its tuples.
index_files_batch(idx, files) ==
    LET RECURSIVE merge_all(_, _)
        merge_all(acc, def_results) ==
            IF def_results = << >> THEN acc
            ELSE merge_all(merge_result(acc, Head(def_results)), Tail(def_results))
    IN  merge_all(idx, par_filter_map(files))

\* Mutant of find_definition: the family filter is missing.
find_definition_any_family(idx, symbol_name, lang_family) ==
    IF symbol_name \in DOMAIN idx.definitions
    THEN idx.definitions[symbol_name]
    ELSE << >>

find_definition(idx, symbol_name, lang_family) ==
    IF symbol_name \in DOMAIN idx.definitions
    THEN SelectSeq(idx.definitions[symbol_name], LAMBDA s : s.lang_family = lang_family)
    ELSE << >>

(***************************************************************************)
(* Reference resolver: text search, then validation on the syntax tree     *)
(***************************************************************************)

\* The ASCII letters and digits: the lower-case letter of each upper-case one,
\* and the digits.
Ascii ==
    [ lower  |-> "A" :> "a" @@ "B" :> "b" @@ "C" :> "c" @@ "D" :> "d" @@ "E" :> "e" @@ "F" :> "f"
                 @@ "G" :> "g" @@ "H" :> "h" @@ "I" :> "i" @@ "J" :> "j" @@ "K" :> "k" @@ "L" :> "l"
                 @@ "M" :> "m" @@ "N" :> "n" @@ "O" :> "o" @@ "P" :> "p" @@ "Q" :> "q" @@ "R" :> "r"
                 @@ "S" :> "s" @@ "T" :> "t" @@ "U" :> "u" @@ "V" :> "v" @@ "W" :> "w" @@ "X" :> "x"
                 @@ "Y" :> "y" @@ "Z" :> "z",
      digits |-> {"0", "1", "2", "3", "4", "5", "6", "7", "8", "9"} ]

\* to_lowercase, on ASCII text
to_lowercase(c) == IF c \in DOMAIN Ascii.lower THEN Ascii.lower[c] ELSE c

\* A word character: what neither side of a word boundary may be.
IsWordByte(b) ==
    LET is_ascii_alphanumeric ==
            \/ b \in DOMAIN Ascii.lower
            \/ b \in {Ascii.lower[c] : c \in DOMAIN Ascii.lower}
            \/ b \in Ascii.digits
    IN  is_ascii_alphanumeric \/ b = "_"

\* ---- RipgrepSearch (search.rs) ----
EXCLUDED_DIRS ==
    { "node_modules", ".git", "target", "build", "dist", ".next", ".cache",
      "coverage", ".nyc_output", "logs", "tmp", "temp", ".DS_Store", ".idea",
      "__pycache__", ".pytest_cache", ".svn", ".hg", "vendor", "deps", "_build",
      ".elixir_ls", ".sass-cache", ".parcel-cache", "out", "public", ".nuxt",
      ".output", ".netlify", "bower_components" }

CODE_EXTENSIONS ==
    { "rs", "js", "jsx", "ts", "tsx", "py", "java", "c", "cpp", "cc", "cxx",
      "h", "hpp", "cs", "php", "rb", "go", "swift", "kt", "scala", "clj",
      "html", "htm", "css", "scss", "sass", "less", "vue", "svelte",
      "json", "xml", "yaml", "yml", "toml", "ini", "cfg", "conf",
      "md", "mdx", "txt", "rst", "tex", "org", "log",
      "sh", "bash", "zsh", "fish", "ps1", "bat", "cmd",
      "sql", "graphql", "gql", "proto", "thrift",
      "r", "m", "mm", "pl", "pm", "lua", "vim", "el",
      "dart", "elm", "haskell", "hs", "ml", "fs", "fsx", "fsi",
      "coffee", "litcoffee", "haml", "pug", "jade", "slim",
      "styl", "stylus", "postcss", "pcss", "lock" }

\* is_valid_file with no file_types given: a file name with an extension is a
\* code file when is_code_extension lists the extension.
is_valid_file(path) ==
    Len(path.name) > 1 /\ path.name[Len(path.name)] \in CODE_EXTENSIONS

\* The bytes of `text` from 0-based offset `from`, `len` of them.
Slice(text, from, len) == SubSeq(text, from + 1, from + len)

\* The lines of a text: the runs of bytes between line terminators.
RECURSIVE SplitLines(_, _)
SplitLines(text, line) ==
    IF text = << >> THEN (IF line = << >> THEN << >> ELSE << line >>)
    ELSE IF Head(text) = "\n" THEN << line >> \o SplitLines(Tail(text), << >>)
    ELSE SplitLines(Tail(text), Append(line, Head(text)))

\* The matcher built from \b<name>\b, case-insensitive: whether a line matches.
is_match(line, symbol_name) ==
    LET Lowered(text) == [i \in DOMAIN text |-> to_lowercase(text[i])]
        lowered_line == Lowered(line)
        lowered_name == Lowered(symbol_name)
    IN
    \E col \in 0 .. (Len(line) - Len(symbol_name)) :
        /\ Slice(lowered_line, col, Len(symbol_name)) = lowered_name
        /\ (col = 0 \/ ~IsWordByte(line[col]))
        /\ (col + Len(symbol_name) >= Len(line)
               \/ ~IsWordByte(line[col + Len(symbol_name) + 1]))

\* None for a file without a match or one the searcher cannot read.
search_in_file_fast(file, symbol_name, max_matches) ==
    LET \* the sink: the matching lines with their 1-based line numbers, as long
        \* as fewer than max_matches were taken
        RECURSIVE matching_lines(_, _, _)
        matching_lines(lines, lnum, room) ==
            IF lines = << >> \/ room = 0 THEN << >>
            ELSE IF is_match(Head(lines), symbol_name)
                 THEN << [line_number |-> lnum, line_content |-> Head(lines)] >>
                      \o matching_lines(Tail(lines), lnum + 1, room - 1)
                 ELSE matching_lines(Tail(lines), lnum + 1, room)
        matches == matching_lines(SplitLines(file.text, << >>), 1, max_matches)
    IN  IF ~file.readable \/ matches = << >> THEN << >>
        ELSE Some([file_path |-> file.path, matches |-> matches])

\* search_content: the results the parallel workers can leave, in any order of
\* arrival, max_results of them at most.  The walk skips the directories that
\* should_exclude_dir names.
search_content(files, symbol_name, root_path, max_results, max_matches_per_file) ==
    LET walked == {f \in files :
                      /\ f.path.root = root_path
                      /\ f.path.dir \notin EXCLUDED_DIRS
                      /\ is_valid_file(f.path)}
        searched == [f \in walked |->
                        search_in_file_fast(f, symbol_name, max_matches_per_file)]
        found == {f \in walked : ~IsNone(searched[f])}
        kept == {S \in SUBSET found :
                      Cardinality(S) = IF Cardinality(found) < max_results
                                       THEN Cardinality(found) ELSE max_results}
    IN  UNION { { [i \in DOMAIN order |-> searched[order[i]][1]] :
                  order \in Orderings(S) } : S \in kept }

\* ---- validation (code_navigation.rs) ----
get_lang_id_from_path(file_path) ==
    LET ext == to_lowercase(file_path.name[Len(file_path.name)])
    IN  CASE ext = "py" -> Some("python")
          [] ext = "rs" -> Some("rust")
          [] ext = "go" -> Some("go")
          [] ext \in {"c", "h"} -> Some("c")
          [] ext \in {"cpp", "cc", "cxx", "hpp", "hxx"} -> Some("cpp")
          [] ext = "java" -> Some("java")
          [] ext \in {"ts", "tsx"} -> Some("typescript")
          [] ext \in {"js", "jsx", "mjs", "cjs"} -> Some("javascript")
          [] OTHER -> << >>

\* root_node().descendant_for_point_range(point, point): the leaf that spans the
\* point; where no leaf does, the root, which spans the whole text.
descendant_for_point_range(leaves, source, row, column) ==
    LET spanning == {n \in leaves :
                        /\ n.row = row
                        /\ n.column <= column
                        /\ column < n.column + (n.end_byte - n.start_byte)}
    IN  IF spanning # {} THEN CHOOSE n \in spanning : TRUE
        ELSE [ kind |-> "root", start_byte |-> 0, end_byte |-> Len(source),
               row |-> 0, column |-> 0, field |-> "", child_index |-> 0,
               ancestors |-> << >> ]

StringKinds == { "string", "template_string", "string_literal", "string_content",
                 "interpreted_string_literal", "raw_string_literal" }
CommentKinds == { "comment", "line_comment", "block_comment" }

valid_kinds(lang_id) ==
    CASE lang_id \in {"typescript", "javascript"} ->
           {"identifier", "type_identifier", "property_identifier"}
      [] lang_id = "go" -> {"identifier", "type_identifier", "field_identifier"}
      [] OTHER -> {"identifier", "type_identifier"}

\* Mutant of is_valid_reference_node: only the parent is looked at for strings
\* and comments, and the member name of an access is not excluded.
is_valid_reference_node_parent_only(node, symbol_name, source, lang_id) ==
    /\ Slice(source, node.start_byte, node.end_byte - node.start_byte) = symbol_name
    /\ node.kind \in valid_kinds(lang_id)
    /\ node.ancestors # << >> => node.ancestors[1] \notin StringKinds \cup CommentKinds

\* Mutant of is_valid_reference_node: the member name of an access is a reference.
is_valid_reference_node_with_members(node, symbol_name, source, lang_id) ==
    /\ Slice(source, node.start_byte, node.end_byte - node.start_byte) = symbol_name
    /\ node.kind \in valid_kinds(lang_id)
    /\ \A i \in DOMAIN node.ancestors : node.ancestors[i] \notin StringKinds \cup CommentKinds

\* Mutant of is_valid_reference_node: the imported name of an import specifier
\* is a reference.
is_valid_reference_node_without_import_rule(node, symbol_name, source, lang_id) ==
    LET has_parent == node.ancestors # << >>
        parent_kind == IF has_parent THEN node.ancestors[1] ELSE ""
        \* p.child_by_field_name(f) is this node
        is_child_by_field_name(f) == node.field = f
    IN  \* 1. the node's text is the name
        IF Slice(source, node.start_byte, node.end_byte - node.start_byte) # symbol_name THEN FALSE
        \* 2. an identifier kind of the language
        ELSE IF node.kind \notin valid_kinds(lang_id) THEN FALSE
        \* 3. no string or comment above it
        ELSE IF \E i \in DOMAIN node.ancestors :
                    node.ancestors[i] \in StringKinds \cup CommentKinds THEN FALSE
        \* 4. not the member name of an access
        ELSE IF has_parent /\
                \/ parent_kind = "member_expression" /\ is_child_by_field_name("property")
                \/ parent_kind = "attribute" /\ lang_id = "python"
                      /\ is_child_by_field_name("attribute")
                \/ parent_kind = "field_expression" /\ lang_id = "rust"
                      /\ is_child_by_field_name("field")
                \/ parent_kind = "selector_expression" /\ lang_id = "go"
                      /\ is_child_by_field_name("field")
                \/ parent_kind = "field_access" /\ is_child_by_field_name("field")
             THEN FALSE
        \* 5. not the key of a pair, a keyed element or a field initializer
        ELSE IF has_parent /\
                \/ parent_kind = "pair" /\ is_child_by_field_name("key")
                \/ parent_kind = "shorthand_property_identifier"
                \/ parent_kind = "keyed_element" /\ lang_id = "go" /\ node.child_index = 0
                \/ parent_kind = "field_initializer" /\ lang_id = "rust"
                      /\ is_child_by_field_name("name")
             THEN FALSE
        ELSE TRUE

\* Mutant of is_valid_reference_node: the alias of an import specifier is
\* excluded with the imported name.
is_valid_reference_node_whole_specifier(node, symbol_name, source, lang_id) ==
    LET has_parent == node.ancestors # << >>
        parent_kind == IF has_parent THEN node.ancestors[1] ELSE ""
        \* p.child_by_field_name(f) is this node
        is_child_by_field_name(f) == node.field = f
    IN  \* 1. the node's text is the name
        IF Slice(source, node.start_byte, node.end_byte - node.start_byte) # symbol_name THEN FALSE
        \* 2. an identifier kind of the language
        ELSE IF node.kind \notin valid_kinds(lang_id) THEN FALSE
        \* 3. no string or comment above it
        ELSE IF \E i \in DOMAIN node.ancestors :
                    node.ancestors[i] \in StringKinds \cup CommentKinds THEN FALSE
        \* 4. not the member name of an access
        ELSE IF has_parent /\
                \/ parent_kind = "member_expression" /\ is_child_by_field_name("property")
                \/ parent_kind = "attribute" /\ lang_id = "python"
                      /\ is_child_by_field_name("attribute")
                \/ parent_kind = "field_expression" /\ lang_id = "rust"
                      /\ is_child_by_field_name("field")
                \/ parent_kind = "selector_expression" /\ lang_id = "go"
                      /\ is_child_by_field_name("field")
                \/ parent_kind = "field_access" /\ is_child_by_field_name("field")
             THEN FALSE
        \* 5. not the key of a pair, a keyed element or a field initializer
        ELSE IF has_parent /\
                \/ parent_kind = "pair" /\ is_child_by_field_name("key")
                \/ parent_kind = "shorthand_property_identifier"
                \/ parent_kind = "keyed_element" /\ lang_id = "go" /\ node.child_index = 0
                \/ parent_kind = "field_initializer" /\ lang_id = "rust"
                      /\ is_child_by_field_name("name")
             THEN FALSE
        \* 6. no identifier of an import specifier
        ELSE IF has_parent /\ parent_kind = "import_specifier" THEN FALSE
        ELSE TRUE

is_valid_reference_node(node, symbol_name, source, lang_id) ==
    LET has_parent == node.ancestors # << >>
        parent_kind == IF has_parent THEN node.ancestors[1] ELSE ""
        \* p.child_by_field_name(f) is this node
        is_child_by_field_name(f) == node.field = f
    IN  \* 1. the node's text is the name
        IF Slice(source, node.start_byte, node.end_byte - node.start_byte) # symbol_name THEN FALSE
        \* 2. an identifier kind of the language
        ELSE IF node.kind \notin valid_kinds(lang_id) THEN FALSE
        \* 3. no string or comment above it
        ELSE IF \E i \in DOMAIN node.ancestors :
                    node.ancestors[i] \in StringKinds \cup CommentKinds THEN FALSE
        \* 4. not the member name of an access
        ELSE IF has_parent /\
                \/ parent_kind = "member_expression" /\ is_child_by_field_name("property")
                \/ parent_kind = "attribute" /\ lang_id = "python"
                      /\ is_child_by_field_name("attribute")
                \/ parent_kind = "field_expression" /\ lang_id = "rust"
                      /\ is_child_by_field_name("field")
                \/ parent_kind = "selector_expression" /\ lang_id = "go"
                      /\ is_child_by_field_name("field")
                \/ parent_kind = "field_access" /\ is_child_by_field_name("field")
             THEN FALSE
        \* 5. not the key of a pair, a keyed element or a field initializer
        ELSE IF has_parent /\
                \/ parent_kind = "pair" /\ is_child_by_field_name("key")
                \/ parent_kind = "shorthand_property_identifier"
                \/ parent_kind = "keyed_element" /\ lang_id = "go" /\ node.child_index = 0
                \/ parent_kind = "field_initializer" /\ lang_id = "rust"
                      /\ is_child_by_field_name("name")
             THEN FALSE
        \* 6. not the imported name of an import specifier
        ELSE IF has_parent /\ parent_kind = "import_specifier"
                /\ is_child_by_field_name("name")
             THEN FALSE
        ELSE TRUE

\* str::match_indices: the offsets of the occurrences, left to right, each
\* search resuming after the previous occurrence.
RECURSIVE match_indices(_, _, _)
match_indices(haystack, needle, from) ==
    IF from + Len(needle) > Len(haystack) THEN << >>
    ELSE IF Slice(haystack, from, Len(needle)) = needle
         THEN << from >> \o match_indices(haystack, needle, from + Len(needle))
         ELSE match_indices(haystack, needle, from + 1)

\* Mutant of word_boundary_cols: the byte after the occurrence is not looked at.
word_boundary_cols_before_only(line_content, symbol_name) ==
    SelectSeq(match_indices(line_content, symbol_name, 0),
              LAMBDA col : col = 0 \/ ~IsWordByte(line_content[col]))

\* The columns that the loop over line_content.match_indices(symbol_name) does
\* not skip: those with before_ok and after_ok.
word_boundary_cols(line_content, symbol_name) ==
    LET before_ok(col) == col = 0 \/ ~IsWordByte(line_content[col])
        after_ok(col) ==
            LET after_idx == col + Len(symbol_name)
            IN  after_idx >= Len(line_content) \/ ~IsWordByte(line_content[after_idx + 1])
    IN  SelectSeq(match_indices(line_content, symbol_name, 0),
                  LAMBDA col : before_ok(col) /\ after_ok(col))

validate_reference_at_line(leaves, source, line_number, symbol_name, lang_id, file_path, lang_family) ==
    LET line_idx == line_number - 1
        \* the loop that finds the byte offset of line line_idx: 0 when the
        \* text ends before that line starts
        RECURSIVE line_start_from(_, _)
        line_start_from(i, current_line) ==
            IF i >= Len(source) THEN 0
            ELSE IF current_line = line_idx THEN i
            ELSE line_start_from(i + 1,
                     IF source[i + 1] = "\n" THEN current_line + 1 ELSE current_line)
        \* source[line_start..].iter().position(|b| b == '\n'), or the end
        RECURSIVE line_end_from(_)
        line_end_from(i) ==
            IF i >= Len(source) THEN Len(source)
            ELSE IF source[i + 1] = "\n" THEN i
            ELSE line_end_from(i + 1)
        line_start == line_start_from(0, 0)
        line_end == line_end_from(line_start)
        line_content == Slice(source, line_start, line_end - line_start)
        accepted(col) ==
            is_valid_reference_node(
                descendant_for_point_range(leaves, source, line_idx, col),
                symbol_name, source, lang_id)
        kept == SelectSeq(word_boundary_cols(line_content, symbol_name), accepted)
    IN  [i \in DOMAIN kept |->
            [ name         |-> symbol_name,
              kind         |-> "reference",
              file_path    |-> file_path,
              lang_family  |-> lang_family,
              start_line   |-> line_number,
              start_column |-> kept[i] + 1,
              end_line     |-> line_number,
              end_column   |-> kept[i] + 1 + Len(symbol_name) ]]

\* references.extend(validated) over the matches of one file
RECURSIVE validate_matches(_, _, _, _, _, _)
validate_matches(matches, file, symbol_name, lang_id, file_path, lang_family) ==
    IF matches = << >> THEN << >>
    ELSE validate_reference_at_line(file.leaves, file.text, Head(matches).line_number,
                                    symbol_name, lang_id, file_path, lang_family)
         \o validate_matches(Tail(matches), file, symbol_name, lang_id, file_path,
                             lang_family)

\* Mutant of references_in: the family of the file's language is not compared.
references_in_any_family(result, files, symbol_name, lang_family) ==
    LET lang == get_lang_id_from_path(result.file_path)
        file == CHOOSE f \in files : f.path = result.file_path
    IN  IF IsNone(lang) THEN << >>
        ELSE IF ~file.readable THEN << >>
        ELSE IF lang[1] \notin RegisteredLangs THEN << >>
        ELSE IF ~file.parses THEN << >>
        ELSE validate_matches(result.matches, file, symbol_name, lang[1],
                              result.file_path, lang_family)

\* One turn of the loop over the search results (lines 330-385).
references_in(result, files, symbol_name, lang_family) ==
    LET lang == get_lang_id_from_path(result.file_path)
        file == CHOOSE f \in files : f.path = result.file_path
    IN  IF IsNone(lang) THEN << >>
        ELSE IF get_lang_family(lang[1]) # lang_family THEN << >>
        ELSE IF ~file.readable THEN << >>
        ELSE IF lang[1] \notin RegisteredLangs THEN << >>
        ELSE IF ~file.parses THEN << >>
        ELSE validate_matches(result.matches, file, symbol_name, lang[1],
                              result.file_path, lang_family)

\* The longest name whose pattern the regex engine compiles (the size limit
\* of the engine, scaled to the sample names).
RegexSizeLimit == 8

\* Mutant of find_references_hybrid: a file that has no language, cannot be read
\* or does not parse ends the search with no references.
find_references_hybrid_aborting(files, symbol_name, lang_family, root_path) ==
    LET \* RegexMatcherBuilder::build gives Err for a pattern over the size
        \* limit of the regex engine; search_content hands the Err on and
        \* find_references_hybrid answers it with Vec::new()
        built == Len(symbol_name) <= RegexSizeLimit
        deliveries == IF built THEN search_content(files, symbol_name, root_path, 500, 100)
                      ELSE { << >> }
        \* the references of each result, whatever its place in the list
        validated == [result \in UNION {Range(search_results) : search_results \in deliveries} |->
                         references_in(result, files, symbol_name, lang_family)]
        RECURSIVE validate_results(_)
        validate_results(search_results) ==
            IF search_results = << >> THEN << >>
            ELSE validated[Head(search_results)] \o validate_results(Tail(search_results))
        failed(result) ==
            \/ IsNone(get_lang_id_from_path(result.file_path))
            \/ \E f \in files : f.path = result.file_path /\ (~f.readable \/ ~f.parses)
    IN  { IF \E i \in DOMAIN search_results : failed(search_results[i])
          THEN << >> ELSE validate_results(search_results) :
          search_results \in deliveries }

\* find_references_hybrid: the lists it can return, one per order in which the
\* search workers delivered their files.  The searcher is built with
\* max_results 500 and max_matches_per_file 100.
find_references_hybrid(files, symbol_name, lang_family, root_path) ==
    LET \* RegexMatcherBuilder::build gives Err for a pattern over the size
        \* limit of the regex engine; search_content hands the Err on and
        \* find_references_hybrid answers it with Vec::new()
        built == Len(symbol_name) <= RegexSizeLimit
        deliveries == IF built THEN search_content(files, symbol_name, root_path, 500, 100)
                      ELSE { << >> }
        \* the references of each result, whatever its place in the list
        validated == [result \in UNION {Range(search_results) : search_results \in deliveries} |->
                         references_in(result, files, symbol_name, lang_family)]
        RECURSIVE validate_results(_)
        validate_results(search_results) ==
            IF search_results = << >> THEN << >>
            ELSE validated[Head(search_results)] \o validate_results(Tail(search_results))
    IN  { validate_results(search_results) : search_results \in deliveries }

\* Sample source files: one statement each, with the leaves that the grammar
\* of the extension gives the text.
\*
\* A source file on disk has a path: the root it lies under, its directory
\* below the root ("" for the root itself) and the pieces of its file name
\* between the dots.  Then whether it can be read, its bytes, whether the parser
\* of its extension's language returns a tree, and the leaves of that tree.
\* A syntax node has a kind, a byte range, a start point, the field name it has
\* in its parent ("" for none), its index among the parent's children and the
\* kinds of its ancestors from the parent up to the root.
SourceFiles ==
    LET Node(kind, start_byte, end_byte, row, column, field, child_index, ancestors) ==
            [ kind |-> kind, start_byte |-> start_byte, end_byte |-> end_byte,
              row |-> row, column |-> column, field |-> field,
              child_index |-> child_index, ancestors |-> ancestors ]
        SourceFile(root, dir, name, readable, text, parses, leaves) ==
            [ path |-> [root |-> root, dir |-> dir, name |-> name],
              readable |-> readable, text |-> text, parses |-> parses, leaves |-> leaves ]
        \* the grave accent, which delimits a template string
        Backtick == "U+0060"
    IN
    [
      \* main.ts:  const foo = "foo is here";
      ts_string |->
        SourceFile("/project/a", "src", << "main", "ts" >>, TRUE,
          << "c", "o", "n", "s", "t", " ", "f", "o", "o", " ", "=", " ", "\"", "f", "o",
             "o", " ", "i", "s", " ", "h", "e", "r", "e", "\"", ";" >>,
          TRUE,
          { Node("identifier", 6, 9, 0, 6, "name", 0, << "variable_declarator", "lexical_declaration", "program" >>),
            Node("string_fragment", 13, 24, 0, 13, "", 1, << "string", "variable_declarator", "lexical_declaration", "program" >>) }),

      \* member.ts:  obj.value = value;
      ts_member |->
        SourceFile("/project/a", "src", << "member", "ts" >>, TRUE,
          << "o", "b", "j", ".", "v", "a", "l", "u", "e", " ", "=", " ", "v", "a", "l", "u",
             "e", ";" >>,
          TRUE,
          { Node("identifier", 0, 3, 0, 0, "object", 0, << "member_expression", "assignment_expression", "expression_statement", "program" >>),
            Node("property_identifier", 4, 9, 0, 4, "property", 2, << "member_expression", "assignment_expression", "expression_statement", "program" >>),
            Node("identifier", 12, 17, 0, 12, "right", 2, << "assignment_expression", "expression_statement", "program" >>) }),

      \* notes.js:  a call of foo on a template string with the substitution ${foo}, then a line comment that names foo
      js_comment |->
        SourceFile("/project/a", "src", << "notes", "js" >>, TRUE,
          << "f", "o", "o", "(", Backtick, "$", "{", "f", "o", "o", "}", Backtick, ")", ";",
             " ", "/", "/", " ", "f", "o", "o" >>,
          TRUE,
          { Node("identifier", 0, 3, 0, 0, "function", 0, << "call_expression", "expression_statement", "program" >>),
            Node("identifier", 7, 10, 0, 7, "", 1, << "template_substitution", "template_string", "arguments", "call_expression", "expression_statement", "program" >>),
            Node("comment", 15, 21, 0, 15, "", 1, << "program" >>) }),

      \* member.py:  obj.value = value  # value
      py_member |->
        SourceFile("/project/a", "src", << "member", "py" >>, TRUE,
          << "o", "b", "j", ".", "v", "a", "l", "u", "e", " ", "=", " ", "v", "a", "l", "u",
             "e", " ", " ", "#", " ", "v", "a", "l", "u", "e" >>,
          TRUE,
          { Node("identifier", 0, 3, 0, 0, "object", 0, << "attribute", "assignment", "expression_statement", "module" >>),
            Node("identifier", 4, 9, 0, 4, "attribute", 2, << "attribute", "assignment", "expression_statement", "module" >>),
            Node("identifier", 12, 17, 0, 12, "right", 2, << "assignment", "expression_statement", "module" >>),
            Node("comment", 19, 26, 0, 19, "", 1, << "module" >>) }),

      \* member.rs:  two lines, the access on the second
      rs_member |->
        SourceFile("/project/a", "src", << "member", "rs" >>, TRUE,
          << "f", "n", " ", "f", "(", ")", " ", "{", "\n", " ", "o", "b", "j", ".", "v",
             "a", "l", "u", "e", " ", "=", " ", "v", "a", "l", "u", "e", ";", " ", "}" >>,
          TRUE,
          { Node("identifier", 10, 13, 1, 1, "value", 0, << "field_expression", "assignment_expression", "expression_statement", "block", "function_item", "source_file" >>),
            Node("field_identifier", 14, 19, 1, 5, "field", 2, << "field_expression", "assignment_expression", "expression_statement", "block", "function_item", "source_file" >>),
            Node("identifier", 22, 27, 1, 13, "right", 2, << "assignment_expression", "expression_statement", "block", "function_item", "source_file" >>) }),

      \* member.go:  func f() { obj.value = value }
      go_member |->
        SourceFile("/project/a", "src", << "member", "go" >>, TRUE,
          << "f", "u", "n", "c", " ", "f", "(", ")", " ", "{", " ", "o", "b", "j", ".", "v",
             "a", "l", "u", "e", " ", "=", " ", "v", "a", "l", "u", "e", " ", "}" >>,
          TRUE,
          { Node("identifier", 11, 14, 0, 11, "operand", 0, << "selector_expression", "expression_list", "assignment_statement", "block", "function_declaration", "source_file" >>),
            Node("field_identifier", 15, 20, 0, 15, "field", 2, << "selector_expression", "expression_list", "assignment_statement", "block", "function_declaration", "source_file" >>),
            Node("identifier", 23, 28, 0, 23, "", 0, << "expression_list", "assignment_statement", "block", "function_declaration", "source_file" >>) }),

      \* Member.java:  class A { void f() { obj.value = value; } }
      java_member |->
        SourceFile("/project/a", "src", << "Member", "java" >>, TRUE,
          << "c", "l", "a", "s", "s", " ", "A", " ", "{", " ", "v", "o", "i", "d", " ", "f",
             "(", ")", " ", "{", " ", "o", "b", "j", ".", "v", "a", "l", "u", "e", " ", "=",
             " ", "v", "a", "l", "u", "e", ";", " ", "}", " ", "}" >>,
          TRUE,
          { Node("identifier", 21, 24, 0, 21, "object", 0, << "field_access", "assignment_expression", "expression_statement", "block", "method_declaration", "class_body", "class_declaration", "program" >>),
            Node("identifier", 25, 30, 0, 25, "field", 2, << "field_access", "assignment_expression", "expression_statement", "block", "method_declaration", "class_body", "class_declaration", "program" >>),
            Node("identifier", 33, 38, 0, 33, "right", 2, << "assignment_expression", "expression_statement", "block", "method_declaration", "class_body", "class_declaration", "program" >>) }),

      \* member.c:  void f() { obj.value = value; }
      c_member |->
        SourceFile("/project/a", "src", << "member", "c" >>, TRUE,
          << "v", "o", "i", "d", " ", "f", "(", ")", " ", "{", " ", "o", "b", "j", ".", "v",
             "a", "l", "u", "e", " ", "=", " ", "v", "a", "l", "u", "e", ";", " ", "}" >>,
          TRUE,
          { Node("identifier", 11, 14, 0, 11, "argument", 0, << "field_expression", "assignment_expression", "expression_statement", "compound_statement", "function_definition", "translation_unit" >>),
            Node("field_identifier", 15, 20, 0, 15, "field", 2, << "field_expression", "assignment_expression", "expression_statement", "compound_statement", "function_definition", "translation_unit" >>),
            Node("identifier", 23, 28, 0, 23, "right", 2, << "assignment_expression", "expression_statement", "compound_statement", "function_definition", "translation_unit" >>) }),

      \* member.cpp:  void f() { obj.value = value; }
      cpp_member |->
        SourceFile("/project/a", "src", << "member", "cpp" >>, TRUE,
          << "v", "o", "i", "d", " ", "f", "(", ")", " ", "{", " ", "o", "b", "j", ".", "v",
             "a", "l", "u", "e", " ", "=", " ", "v", "a", "l", "u", "e", ";", " ", "}" >>,
          TRUE,
          { Node("identifier", 11, 14, 0, 11, "argument", 0, << "field_expression", "assignment_expression", "expression_statement", "compound_statement", "function_definition", "translation_unit" >>),
            Node("field_identifier", 15, 20, 0, 15, "field", 2, << "field_expression", "assignment_expression", "expression_statement", "compound_statement", "function_definition", "translation_unit" >>),
            Node("identifier", 23, 28, 0, 23, "right", 2, << "assignment_expression", "expression_statement", "compound_statement", "function_definition", "translation_unit" >>) }),

      \* README.md:  foo and value (no grammar for the extension)
      readme |->
        SourceFile("/project/a", "", << "README", "md" >>, TRUE,
          << "f", "o", "o", " ", "a", "n", "d", " ", "v", "a", "l", "u", "e" >>,
          TRUE,
          {  }),

      \* a file of the other project root
      other_root |->
        SourceFile("/project/b", "src", << "main", "ts" >>, TRUE,
          << "v", "a", "l", "u", "e", " ", "=", " ", "f", "o", "o", ";" >>,
          TRUE,
          { Node("identifier", 0, 5, 0, 0, "left", 0, << "assignment_expression", "expression_statement", "program" >>),
            Node("identifier", 8, 11, 0, 8, "right", 2, << "assignment_expression", "expression_statement", "program" >>) }) ]



\* Sample source files for the validation rules on keys and import specifiers,
\* for the scan of a line and for the files that the resolver passes over, with
\* the leaves that the grammar of the extension gives the text.
RuleFiles ==
    LET Node(kind, start_byte, end_byte, row, column, field, child_index, ancestors) ==
            [ kind |-> kind, start_byte |-> start_byte, end_byte |-> end_byte,
              row |-> row, column |-> column, field |-> field,
              child_index |-> child_index, ancestors |-> ancestors ]
        SourceFile(root, dir, name, readable, text, parses, leaves) ==
            [ path |-> [root |-> root, dir |-> dir, name |-> name],
              readable |-> readable, text |-> text, parses |-> parses, leaves |-> leaves ]
    IN
    [
      \* rename.ts:  import { original as renamed } from "x"; renamed();
      ts_import_rename |->
        SourceFile("/project/a", "src", << "rename", "ts" >>, TRUE,
          << "i", "m", "p", "o", "r", "t", " ", "{", " ", "o", "r", "i", "g", "i", "n", "a",
             "l", " ", "a", "s", " ", "r", "e", "n", "a", "m", "e", "d", " ", "}", " ", "f",
             "r", "o", "m", " ", "\"", "x", "\"", ";", " ", "r", "e", "n", "a", "m", "e",
             "d", "(", ")", ";" >>,
          TRUE,
          { Node("identifier", 9, 17, 0, 9, "name", 0, << "import_specifier", "named_imports", "import_clause", "import_statement", "program" >>),
            Node("identifier", 21, 28, 0, 21, "alias", 2, << "import_specifier", "named_imports", "import_clause", "import_statement", "program" >>),
            Node("string_fragment", 37, 38, 0, 37, "", 1, << "string", "import_statement", "program" >>),
            Node("identifier", 41, 48, 0, 41, "function", 0, << "call_expression", "expression_statement", "program" >>) }),

      \* plain.ts:  import { foo } from "x";
      ts_import |->
        SourceFile("/project/a", "src", << "plain", "ts" >>, TRUE,
          << "i", "m", "p", "o", "r", "t", " ", "{", " ", "f", "o", "o", " ", "}", " ", "f",
             "r", "o", "m", " ", "\"", "x", "\"", ";" >>,
          TRUE,
          { Node("identifier", 9, 12, 0, 9, "name", 0, << "import_specifier", "named_imports", "import_clause", "import_statement", "program" >>),
            Node("string_fragment", 21, 22, 0, 21, "", 1, << "string", "import_statement", "program" >>) }),

      \* pair.ts:  x = { value: value, foo };
      ts_pair |->
        SourceFile("/project/a", "src", << "pair", "ts" >>, TRUE,
          << "x", " ", "=", " ", "{", " ", "v", "a", "l", "u", "e", ":", " ", "v", "a", "l",
             "u", "e", ",", " ", "f", "o", "o", " ", "}", ";" >>,
          TRUE,
          { Node("identifier", 0, 1, 0, 0, "left", 0, << "assignment_expression", "expression_statement", "program" >>),
            Node("property_identifier", 6, 11, 0, 6, "key", 0, << "pair", "object", "assignment_expression", "expression_statement", "program" >>),
            Node("identifier", 13, 18, 0, 13, "value", 2, << "pair", "object", "assignment_expression", "expression_statement", "program" >>),
            Node("shorthand_property_identifier", 20, 23, 0, 20, "", 3, << "object", "assignment_expression", "expression_statement", "program" >>) }),

      \* pair.py:  x = {value: value}
      py_pair |->
        SourceFile("/project/a", "src", << "pair", "py" >>, TRUE,
          << "x", " ", "=", " ", "{", "v", "a", "l", "u", "e", ":", " ", "v", "a", "l", "u",
             "e", "}" >>,
          TRUE,
          { Node("identifier", 0, 1, 0, 0, "left", 0, << "assignment", "expression_statement", "module" >>),
            Node("identifier", 5, 10, 0, 5, "key", 0, << "pair", "dictionary", "assignment", "expression_statement", "module" >>),
            Node("identifier", 12, 17, 0, 12, "value", 2, << "pair", "dictionary", "assignment", "expression_statement", "module" >>) }),

      \* keyed.go:  func f() { x := T{value: value} }
      go_keyed |->
        SourceFile("/project/a", "src", << "keyed", "go" >>, TRUE,
          << "f", "u", "n", "c", " ", "f", "(", ")", " ", "{", " ", "x", " ", ":", "=", " ",
             "T", "{", "v", "a", "l", "u", "e", ":", " ", "v", "a", "l", "u", "e", "}", " ",
             "}" >>,
          TRUE,
          { Node("identifier", 11, 12, 0, 11, "", 0, << "expression_list", "short_var_declaration", "block", "function_declaration", "source_file" >>),
            Node("type_identifier", 16, 17, 0, 16, "type", 0, << "composite_literal", "expression_list", "short_var_declaration", "block", "function_declaration", "source_file" >>),
            Node("identifier", 18, 23, 0, 18, "", 0, << "literal_element", "keyed_element", "literal_value", "composite_literal", "expression_list", "short_var_declaration", "block", "function_declaration", "source_file" >>),
            Node("identifier", 25, 30, 0, 25, "", 0, << "literal_element", "keyed_element", "literal_value", "composite_literal", "expression_list", "short_var_declaration", "block", "function_declaration", "source_file" >>) }),

      \* field.rs:  fn f() { S { value: value }; }
      rs_field |->
        SourceFile("/project/a", "src", << "field", "rs" >>, TRUE,
          << "f", "n", " ", "f", "(", ")", " ", "{", " ", "S", " ", "{", " ", "v", "a", "l",
             "u", "e", ":", " ", "v", "a", "l", "u", "e", " ", "}", ";", " ", "}" >>,
          TRUE,
          { Node("type_identifier", 9, 10, 0, 9, "name", 0, << "struct_expression", "expression_statement", "block", "function_item", "source_file" >>),
            Node("field_identifier", 13, 18, 0, 13, "field", 0, << "field_initializer", "field_initializer_list", "struct_expression", "expression_statement", "block", "function_item", "source_file" >>),
            Node("identifier", 20, 25, 0, 20, "value", 2, << "field_initializer", "field_initializer_list", "struct_expression", "expression_statement", "block", "function_item", "source_file" >>) }),

      \* scan.ts:  foo = foo + barfoo + foo_1 + foo;
      ts_scan |->
        SourceFile("/project/a", "src", << "scan", "ts" >>, TRUE,
          << "f", "o", "o", " ", "=", " ", "f", "o", "o", " ", "+", " ", "b", "a", "r", "f",
             "o", "o", " ", "+", " ", "f", "o", "o", "_", "1", " ", "+", " ", "f", "o", "o",
             ";" >>,
          TRUE,
          { Node("identifier", 0, 3, 0, 0, "left", 0, << "assignment_expression", "expression_statement", "program" >>),
            Node("identifier", 6, 9, 0, 6, "left", 0, << "binary_expression", "binary_expression", "binary_expression", "assignment_expression", "expression_statement", "program" >>),
            Node("identifier", 12, 18, 0, 12, "right", 2, << "binary_expression", "binary_expression", "binary_expression", "assignment_expression", "expression_statement", "program" >>),
            Node("identifier", 21, 26, 0, 21, "right", 2, << "binary_expression", "binary_expression", "assignment_expression", "expression_statement", "program" >>),
            Node("identifier", 29, 32, 0, 29, "right", 2, << "binary_expression", "assignment_expression", "expression_statement", "program" >>) }),

      \* locked.ts:  foo = value;  (it cannot be read)
      ts_unreadable |->
        SourceFile("/project/a", "src", << "locked", "ts" >>, FALSE,
          << "f", "o", "o", " ", "=", " ", "v", "a", "l", "u", "e", ";" >>,
          TRUE,
          { Node("identifier", 0, 3, 0, 0, "left", 0, << "assignment_expression", "expression_statement", "program" >>),
            Node("identifier", 6, 11, 0, 6, "right", 2, << "assignment_expression", "expression_statement", "program" >>) }),

      \* broken.ts:  foo = value;  (the parser returns no tree)
      ts_no_tree |->
        SourceFile("/project/a", "src", << "broken", "ts" >>, TRUE,
          << "f", "o", "o", " ", "=", " ", "v", "a", "l", "u", "e", ";" >>,
          FALSE,
          {  }),

      \* notes.txt:  foo = value;  (no language for the extension)
      txt_notes |->
        SourceFile("/project/a", "src", << "notes", "txt" >>, TRUE,
          << "f", "o", "o", " ", "=", " ", "v", "a", "l", "u", "e", ";" >>,
          TRUE,
          {  }) ]

(***************************************************************************)
(* Persistence: file name, JSON document, save / load                      *)
(***************************************************************************)

\* Sha256 of the sample root paths (32 bytes each).  "/project/twin" stands for
\* a root other than "/project/a" whose digest agrees with that of "/project/a"
\* on the first HashBytes bytes (the names are 2^64, the paths unbounded);
\* the digest of "/project/b" differs from it there.
Sha256(root_path) ==
    CASE root_path = "/project/a" ->
           <<18, 52, 86, 120, 154, 188, 222, 240>> \o [i \in 1..24 |-> i]
      [] root_path = "/project/twin" ->
           <<18, 52, 86, 120, 154, 188, 222, 240>> \o [i \in 1..24 |-> 255 - i]
      [] root_path = "/project/b" ->
           <<18, 52, 86, 120, 154, 188, 222, 241>> \o [i \in 1..24 |-> 2 * i]

HashBytes == 8

HexDigits == <<"0", "1", "2", "3", "4", "5", "6", "7",
               "8", "9", "a", "b", "c", "d", "e", "f">>

\* hex::encode
RECURSIVE hex_encode(_)
hex_encode(bytes) ==
    IF bytes = << >> THEN << >>
    ELSE << HexDigits[(Head(bytes) \div 16) + 1], HexDigits[(Head(bytes) % 16) + 1] >>
         \o hex_encode(Tail(bytes))

\* Mutant of get_project_hash: the first four bytes of the digest are encoded.
get_project_hash_four_bytes(root_path) == hex_encode(SubSeq(Sha256(root_path), 1, 4))

get_project_hash(root_path) == hex_encode(SubSeq(Sha256(root_path), 1, HashBytes))

\* get_index_path: <app data>/code-index/<hash>.json, identified by <hash>.
get_index_path(root_path) == get_project_hash(root_path)

IndexPaths == {get_index_path(r) : r \in RootPaths}

\* chrono::Utc::now().timestamp() and the file_timestamps argument of save_index.
Epochs == {1700000000}
TimestampMaps == {[f \in Files |-> 1700000000]}

PersistedIndex(version, root_path, last_updated, file_timestamps, idx) ==
    [ version          |-> version,
      root_path        |-> root_path,
      last_updated     |-> last_updated,
      file_timestamps  |-> file_timestamps,
      definitions      |-> idx.definitions,
      file_definitions |-> idx.file_definitions ]

\* serde_json::to_string(&persisted): the JSON documents it can produce.  Objects
\* are keyed maps; a HashSet is written as an array in its iteration order.
to_string(persisted) ==
    LET fd == persisted.file_definitions
        arrays == {a \in [DOMAIN fd -> UNION {Orderings(fd[f]) : f \in DOMAIN fd}] :
                       \A f \in DOMAIN fd : a[f] \in Orderings(fd[f])}
    IN  {[persisted EXCEPT !.file_definitions = a] : a \in arrays}

\* Mutant of from_str: only the first name of each array is kept.
from_str_first_name(json) ==
    [json EXCEPT !.file_definitions = [f \in DOMAIN json.file_definitions |->
                                           {json.file_definitions[f][1]}]]

\* serde_json::from_str: arrays of names are collected into HashSets.
from_str(json) ==
    [json EXCEPT !.file_definitions = [f \in DOMAIN json.file_definitions |->
                                           Range(json.file_definitions[f])]]

\* A path of the index directory holds Some(document) or nothing.
NoFile == << >>

exists(path) == disk[path] # NoFile

\* Mutant of load_index: the stale file is not removed.
load_index_keeps_stale(path, root_path) ==
    IF ~exists(path) THEN [ret |-> FALSE, remove |-> FALSE, apply |-> << >>]
    ELSE LET persisted == from_str(disk[path][1])
         IN  IF persisted.version # INDEX_VERSION \/ persisted.root_path # root_path
             THEN [ret |-> FALSE, remove |-> FALSE, apply |-> << >>]
             ELSE [ret |-> TRUE, remove |-> FALSE,
                   apply |-> Some([definitions |-> persisted.definitions,
                                   file_definitions |-> persisted.file_definitions])]

\* Mutant of load_index: the stored root path is not compared.
load_index_no_root_check(path, root_path) ==
    IF ~exists(path) THEN [ret |-> FALSE, remove |-> FALSE, apply |-> << >>]
    ELSE LET persisted == from_str(disk[path][1])
         IN  IF persisted.version # INDEX_VERSION
             THEN [ret |-> FALSE, remove |-> TRUE, apply |-> << >>]
             ELSE [ret |-> TRUE, remove |-> FALSE,
                   apply |-> Some([definitions |-> persisted.definitions,
                                   file_definitions |-> persisted.file_definitions])]

\* Mutant of load_index: only older versions are rejected.
load_index_accepts_newer(path, root_path) ==
    IF ~exists(path) THEN [ret |-> FALSE, remove |-> FALSE, apply |-> << >>]
    ELSE LET persisted == from_str(disk[path][1])
         IN  IF persisted.version < INDEX_VERSION
             THEN [ret |-> FALSE, remove |-> TRUE, apply |-> << >>]
             ELSE IF persisted.root_path # root_path
             THEN [ret |-> FALSE, remove |-> FALSE, apply |-> << >>]
             ELSE [ret |-> TRUE, remove |-> FALSE,
                   apply |-> Some([definitions |-> persisted.definitions,
                                   file_definitions |-> persisted.file_definitions])]

\* The outcome of code_nav_load_index read off the file: what is returned, whether
\* the file is removed, and the index to install (none when not applied).
load_index(path, root_path) ==
    IF ~exists(path) THEN [ret |-> FALSE, remove |-> FALSE, apply |-> << >>]
    ELSE LET persisted == from_str(disk[path][1])
         IN  IF persisted.version # INDEX_VERSION
             THEN [ret |-> FALSE, remove |-> TRUE, apply |-> << >>]
             ELSE IF persisted.root_path # root_path
             THEN [ret |-> FALSE, remove |-> FALSE, apply |-> << >>]
             ELSE [ret |-> TRUE, remove |-> FALSE,
                   apply |-> Some([definitions |-> persisted.definitions,
                                   file_definitions |-> persisted.file_definitions])]

\* Mutant of get_index_metadata: the names are counted, not their records.
get_index_metadata_counting_names(path) ==
    IF ~exists(path) THEN << >>
    ELSE LET persisted == from_str(disk[path][1])
         IN  IF persisted.version # INDEX_VERSION THEN << >>
             ELSE Some([ version          |-> persisted.version,
                         root_path        |-> persisted.root_path,
                         last_updated     |-> persisted.last_updated,
                         file_count       |-> Cardinality(DOMAIN persisted.file_definitions),
                         definition_count |-> Cardinality(DOMAIN persisted.definitions),
                         file_timestamps  |-> persisted.file_timestamps ])

\* code_nav_get_index_metadata read off the file: None when there is no file or
\* its version is not INDEX_VERSION, else the summary (lines 1042-1049).
get_index_metadata(path) ==
    IF ~exists(path) THEN << >>
    ELSE LET persisted == from_str(disk[path][1])
             RECURSIVE sum_len(_)
             sum_len(names) ==
                 IF names = {} THEN 0
                 ELSE LET n == CHOOSE x \in names : TRUE
                      IN  Len(persisted.definitions[n]) + sum_len(names \ {n})
         IN  IF persisted.version # INDEX_VERSION THEN << >>
             ELSE Some([ version          |-> persisted.version,
                         root_path        |-> persisted.root_path,
                         last_updated     |-> persisted.last_updated,
                         file_count       |-> Cardinality(DOMAIN persisted.file_definitions),
                         definition_count |-> sum_len(DOMAIN persisted.definitions),
                         file_timestamps  |-> persisted.file_timestamps ])

(***************************************************************************)
(* Commands run to completion (Spec)                                       *)
(***************************************************************************)
\* Return values: Ok(()), Ok(bool), Ok(Vec<SymbolInfo>), Ok(Vec<String>).
\* and Ok(Option<IndexMetadata>).
OkUnit == [ok |-> TRUE, flag |-> FALSE, symbols |-> << >>, files |-> << >>,
           metadata |-> << >>]
OkBool(b) == [OkUnit EXCEPT !.flag = b]
OkSymbols(list) == [OkUnit EXCEPT !.symbols = list]
OkFiles(list) == [OkUnit EXCEPT !.files = list]

NoArgs == [none |-> TRUE]

Call(op, args, ret) == [op |-> op, args |-> args, ret |-> ret]

\* No search_content call is in progress.
NoSearch ==
    [ phase |-> "idle", query |-> << >>, root_path |-> "", max_results |-> 0,
      max_matches_per_file |-> 0, workers |-> << >>, results |-> << >>,
      total_results |-> 0 ]

NoRoundTrip == [phase |-> "none", root_path |-> "", saved |-> EmptyIndex, ret |-> FALSE]

\* An invocation: where it stands, its arguments and its local variables.
TaskIdle ==
    [ pc          |-> "idle",
      file_path   |-> "",
      content     |-> << >>,      \* Some(content)
      lang_id     |-> "",
      symbol_name |-> "",
      root_path   |-> "",
      files       |-> << >>,      \* the batch argument
      def_results |-> << >>,      \* the batch's parsed tuples still to merge
      symbols     |-> << >>,      \* index_file's definitions vector
      persisted   |-> << >>,      \* Some(PersistedIndex)
      result      |-> "" ]        \* "Err", "Panic" once the invocation ended so

\* Two invocations run concurrently.
Tasks == {1, 2}

\* No guard is out and no holder of the write guard has panicked.
FreeLock == [writer |-> 0, readers |-> {}, poisoned |-> FALSE]

\* A snapshot file left by a release with another format version.
LegacyIndex == index_file(EmptyIndex, "a.src", PyFoo, "python")
LegacyFiles ==
    {Some(PersistedIndex(v, r, 1600000000, << >>,
                         [LegacyIndex EXCEPT !.file_definitions =
                              [f \in DOMAIN LegacyIndex.file_definitions |-> <<"foo">>]])) :
        v \in (1..MaxVersion) \ {INDEX_VERSION}, r \in RootPaths}

Init ==
    /\ index = EmptyIndex
    /\ disk \in [IndexPaths -> {NoFile} \cup LegacyFiles]
    /\ last = Call("new", NoArgs, OkUnit)
    /\ rt = NoRoundTrip
    /\ lock = FreeLock
    /\ task = [t \in Tasks |-> TaskIdle]
    /\ committed = EmptyIndex
    /\ project = {}
    /\ search = NoSearch

code_nav_index_file(file_path, content, lang_id) ==
    /\ index' = index_file(index, file_path, content, lang_id)
    /\ last' = Call("index_file",
                    [file_path |-> file_path, content |-> content, lang_id |-> lang_id,
                     names |-> IF file_path \in DOMAIN index.file_definitions
                               THEN index.file_definitions[file_path] ELSE {}],
                    OkUnit)
    /\ rt' = NoRoundTrip
    /\ UNCHANGED <<search, project, disk, lock, task, committed>>

code_nav_find_definition(symbol_name, lang_family) ==
    /\ last' = Call("find_definition",
                    [symbol_name |-> symbol_name, lang_family |-> lang_family],
                    OkSymbols(find_definition(index, symbol_name, lang_family)))
    /\ UNCHANGED <<search, project, index, disk, rt, lock, task, committed>>

code_nav_clear_file(file_path) ==
    /\ index' = clear_file(index, file_path)
    /\ last' = Call("clear_file",
                    [file_path |-> file_path,
                     names |-> IF file_path \in DOMAIN index.file_definitions
                               THEN index.file_definitions[file_path] ELSE {}],
                    OkUnit)
    /\ rt' = NoRoundTrip
    /\ UNCHANGED <<search, project, disk, lock, task, committed>>

code_nav_clear_all ==
    /\ index' = clear_all(index)
    /\ last' = Call("clear_all", NoArgs, OkUnit)
    /\ rt' = IF rt.phase = "saved" THEN [rt EXCEPT !.phase = "cleared"] ELSE NoRoundTrip
    /\ UNCHANGED <<search, project, disk, lock, task, committed>>

code_nav_get_indexed_files ==
    /\ \E keys \in Orderings(DOMAIN index.file_definitions) :
           last' = Call("get_indexed_files", NoArgs, OkFiles(keys))
    /\ UNCHANGED <<search, project, index, disk, rt, lock, task, committed>>

code_nav_save_index(root_path, file_timestamps) ==
    /\ \E now \in Epochs :
       \E json \in to_string(PersistedIndex(INDEX_VERSION, root_path, now,
                                            file_timestamps, index)) :
           disk' = [disk EXCEPT ![get_index_path(root_path)] = Some(json)]
    /\ last' = Call("save_index", [root_path |-> root_path], OkUnit)
    /\ rt' = [phase |-> "saved", root_path |-> root_path, saved |-> index, ret |-> FALSE]
    /\ UNCHANGED <<search, project, index, lock, task, committed>>

code_nav_load_index(root_path) ==
    LET path == get_index_path(root_path)
        out == load_index(path, root_path)
    IN  /\ disk' = IF out.remove THEN [disk EXCEPT ![path] = NoFile] ELSE disk
        /\ index' = IF IsNone(out.apply) THEN index ELSE out.apply[1]
        /\ last' = Call("load_index",
                        [root_path |-> root_path,
                         found |-> IF exists(path)
                                   THEN [version |-> disk[path][1].version,
                                         root_path |-> disk[path][1].root_path]
                                   ELSE [version |-> 0, root_path |-> ""]],
                        OkBool(out.ret))
        /\ rt' = IF rt.phase = "cleared" /\ rt.root_path = root_path
                 THEN [rt EXCEPT !.phase = "loaded", !.ret = out.ret]
                 ELSE NoRoundTrip
        /\ UNCHANGED <<search, project, lock, task, committed>>

code_nav_get_index_metadata(root_path) ==
    /\ last' = Call("get_index_metadata", [root_path |-> root_path],
                    [OkUnit EXCEPT !.metadata = get_index_metadata(get_index_path(root_path))])
    /\ UNCHANGED <<search, project, index, disk, rt, lock, task, committed>>

\* Mutant of code_nav_delete_index: remove_file is called without the exists()
\* test, and fails on an absent file.
code_nav_delete_index_unchecked(root_path) ==
    LET path == get_index_path(root_path)
    IN  /\ disk' = [disk EXCEPT ![path] = NoFile]
        /\ last' = Call("delete_index",
                        [root_path |-> root_path,
                         existed |-> exists(path),
                         repeats |-> last.op = "delete_index"
                                        /\ last.args.root_path = root_path
                                        /\ last.args.existed],
                        [OkUnit EXCEPT !.ok = exists(path)])
        /\ rt' = NoRoundTrip
        /\ UNCHANGED <<search, project, index, lock, task, committed>>

code_nav_delete_index(root_path) ==
    LET path == get_index_path(root_path)
    IN  /\ disk' = IF exists(path) THEN [disk EXCEPT ![path] = NoFile] ELSE disk
        /\ last' = Call("delete_index",
                        [root_path |-> root_path,
                         existed |-> exists(path),
                         repeats |-> last.op = "delete_index"
                                        /\ last.args.root_path = root_path
                                        /\ last.args.existed],
                        OkUnit)
        /\ rt' = NoRoundTrip
        /\ UNCHANGED <<search, project, index, lock, task, committed>>

Next ==
    \/ \E f \in Files, c \in Contents, l \in Langs :
           Indexable(c, l) /\ code_nav_index_file(f, c, l)
    \/ \E n \in Names, fam \in Families : code_nav_find_definition(n, fam)
    \/ \E f \in Files : code_nav_clear_file(f)
    \/ code_nav_clear_all
    \/ code_nav_get_indexed_files
    \/ \E r \in RootPaths, ts \in TimestampMaps : code_nav_save_index(r, ts)
    \/ \E r \in RootPaths : code_nav_load_index(r)
    \/ \E r \in RootPaths : code_nav_get_index_metadata(r)
    \/ \E r \in RootPaths : code_nav_delete_index(r)

Spec == Init /\ [][Next]_vars

(***************************************************************************)
(* The batch indexer run to completion (SpecB)                             *)
(***************************************************************************)
MaxBatch == 2            \* a batch holds at most MaxBatch tuples

\* The tuples a batch is made of: a text that parses, one that does not, and a
\* language without a parser.
Batches ==
    LET entries == {FileArg(f, c, "python") : f \in Files, c \in {PyFoo, PyFooBar, PyNoTree}}
                       \cup {FileArg(f, PyFoo, "text") : f \in Files}
    IN  UNION {[1..n -> entries] : n \in 0..MaxBatch}

code_nav_index_files_batch(files) ==
    /\ index' = index_files_batch(index, files)
    /\ last' = Call("index_files_batch",
                    [files |-> files],
                    OkUnit)
    /\ rt' = NoRoundTrip
    /\ UNCHANGED <<search, project, disk, lock, task, committed>>

\* No snapshot file is on disk.
InitNoSnapshot ==
    /\ index = EmptyIndex
    /\ disk = [path \in IndexPaths |-> NoFile]
    /\ last = Call("new", NoArgs, OkUnit)
    /\ rt = NoRoundTrip
    /\ lock = FreeLock
    /\ task = [t \in Tasks |-> TaskIdle]
    /\ committed = EmptyIndex
    /\ project = {}
    /\ search = NoSearch

NextB ==
    \/ \E f \in Files : code_nav_clear_file(f)
    \/ \E files \in Batches : code_nav_index_files_batch(files)

SpecB == InitNoSnapshot /\ [][NextB]_vars

(***************************************************************************)
(* The reference resolver run to completion (SpecR)                        *)
(***************************************************************************)
MaxProjectFiles == 2     \* the project holds at most MaxProjectFiles source files

\* A source file is written to the project directory (by the editor or any
\* other program).
write_source_file(file) ==
    /\ file \notin project
    /\ Cardinality(project) < MaxProjectFiles
    /\ project' = project \cup {file}
    /\ last' = Call("write_source_file", NoArgs, OkUnit)
    /\ UNCHANGED <<search, index, disk, rt, lock, task, committed>>

remove_source_file(file) ==
    /\ file \in project
    /\ project' = project \ {file}
    /\ last' = Call("remove_source_file", NoArgs, OkUnit)
    /\ UNCHANGED <<search, index, disk, rt, lock, task, committed>>

\* Mutant of code_nav_find_references_hybrid: the search empties the index.
code_nav_find_references_hybrid_clearing(symbol_name, lang_family, root_path) ==
    /\ \E references \in find_references_hybrid(project, symbol_name, lang_family, root_path) :
           last' = Call("find_references_hybrid",
                        [symbol_name |-> symbol_name, lang_family |-> lang_family,
                         root_path |-> root_path],
                        OkSymbols(references))
    /\ index' = clear_all(index)
    /\ UNCHANGED <<search, project, disk, rt, lock, task, committed>>

code_nav_find_references_hybrid(symbol_name, lang_family, root_path) ==
    /\ \E references \in find_references_hybrid(project, symbol_name, lang_family, root_path) :
           last' = Call("find_references_hybrid",
                        [symbol_name |-> symbol_name, lang_family |-> lang_family,
                         root_path |-> root_path],
                        OkSymbols(references))
    /\ UNCHANGED <<search, project, index, disk, rt, lock, task, committed>>

NextR ==
    \/ \E id \in DOMAIN SourceFiles : write_source_file(SourceFiles[id])
    \/ \E id \in DOMAIN SourceFiles : remove_source_file(SourceFiles[id])
    \/ \E n \in { <<"f", "o", "o">>, <<"v", "a", "l", "u", "e">>, <<"o", "b", "j">> },
          l \in RegisteredLangs \cup {"text"} :
           code_nav_find_references_hybrid(n, get_lang_family(l), "/project/a")

SpecR == InitNoSnapshot /\ [][NextR]_vars

(***************************************************************************)
(* The reference resolver over the key and import samples (SpecV)          *)
(***************************************************************************)
NextV ==
    \/ \E id \in DOMAIN RuleFiles : write_source_file(RuleFiles[id])
    \/ \E id \in {"ts_string", "ts_member", "py_member", "rs_member", "go_member"} :
           write_source_file(SourceFiles[id])
    \/ \E file \in project : remove_source_file(file)
    \/ \E n \in { <<"f", "o", "o">>, <<"v", "a", "l", "u", "e">>,
                  <<"o", "r", "i", "g", "i", "n", "a", "l">>,
                  <<"r", "e", "n", "a", "m", "e", "d">>,
                  <<"t", "o", "o", "_", "l", "o", "n", "g", "_", "n", "a", "m", "e">> },
          l \in {"typescript", "python", "go", "rust"} :
           code_nav_find_references_hybrid(n, get_lang_family(l), "/project/a")

SpecV == InitNoSnapshot /\ [][NextV]_vars

(***************************************************************************)
(* Properties of the index operations                                      *)
(***************************************************************************)
AllRecords(idx) == UNION {Range(idx.definitions[n]) : n \in DOMAIN idx.definitions}

\* The records of one file, per name, in list order.
RecordsOf(idx, file_path) ==
    [n \in DOMAIN idx.definitions |->
        SelectSeq(idx.definitions[n], LAMBDA s : s.file_path = file_path)]

NamesOf(idx, file_path) ==
    IF file_path \in DOMAIN idx.file_definitions
    THEN idx.file_definitions[file_path] ELSE {}

ReverseIndexHolds(idx) ==
    /\ \A f \in DOMAIN idx.file_definitions : \A n \in idx.file_definitions[f] :
           /\ n \in DOMAIN idx.definitions
           /\ \E s \in Range(idx.definitions[n]) : s.file_path = f
    /\ \A n \in DOMAIN idx.definitions : \A s \in Range(idx.definitions[n]) :
           n \in NamesOf(idx, s.file_path)

\* C1: reverse-index consistency.  In every state the commands reach, each name
\* of file_definitions[f] has a record of f under it in definitions, and each
\* record of f in definitions sits under a name that file_definitions[f] lists.
C1_ReverseIndexConsistency == ReverseIndexHolds(index)

\* A file was just cleared while another file still defines one of its names.
C1_Witness ==
    /\ last.op = "clear_file"
    /\ \E n \in last.args.names : n \in DOMAIN index.definitions
    /\ index.file_definitions # << >>

\* What the language's definition pattern yields for a text, when it has a
\* parser and the text parses.
Parsed(content, lang_id) == lang_id \in RegisteredLangs /\ content.parses

SiteNames(content) == {content.sites[i].name : i \in DOMAIN content.sites}

\* C2: reindex replacement.  After index_file(f, C2, lang) on a file that was
\* indexed before, the records of f are exactly the definitions of C2 (one per
\* capture, under the captured name); nothing of the earlier content is left for
\* find_definition to return.
C2_ReindexReplaces ==
    (last.op = "index_file" /\ Parsed(last.args.content, last.args.lang_id)) =>
        LET f == last.args.file_path
            expected == extract_definitions(f, last.args.content.sites, last.args.lang_id)
        IN  /\ \A n \in Names :
                   (IF n \in DOMAIN index.definitions THEN RecordsOf(index, f)[n] ELSE << >>)
                       = SelectSeq(expected, LAMBDA s : s.name = n)
            /\ {s.name : s \in {r \in AllRecords(index) : r.file_path = f}}
                   = SiteNames(last.args.content)
            /\ \A n \in Names, fam \in Families :
                   \A s \in Range(find_definition(index, n, fam)) :
                       s.file_path = f => s \in Range(expected)

\* A file that defined foo and bar was reindexed with a text that defines less.
C2_Witness ==
    /\ last.op = "index_file"
    /\ "bar" \in last.args.names
    /\ Parsed(last.args.content, last.args.lang_id)
    /\ last.args.content.sites # << >>
    /\ "bar" \notin SiteNames(last.args.content)
    /\ "bar" \notin DOMAIN index.definitions

\* C3: family isolation.  find_definition(name, fam) returns the records of
\* definitions[name] whose lang_family is fam, all of them and no other, the
\* empty list for an absent name, never an error; and what index_file stores for
\* a language is returned for that language's family only.
C3_FamilyIsolation ==
    /\ last.op = "find_definition" =>
          LET n == last.args.symbol_name
              fam == last.args.lang_family
              stored == IF n \in DOMAIN index.definitions
                        THEN index.definitions[n] ELSE << >>
              hits == {i \in DOMAIN stored : stored[i].lang_family = fam}
          IN  /\ last.ret.ok
              /\ Range(last.ret.symbols) = {stored[i] : i \in hits}
              /\ Len(last.ret.symbols) = Cardinality(hits)
    /\ last.op = "index_file" =>
          \A n \in Names, fam \in Families :
              fam # get_lang_family(last.args.lang_id) =>
                  \A s \in Range(find_definition(index, n, fam)) :
                      s.file_path # last.args.file_path

\* foo is defined under both families and a query returned one family's records.
C3_Witness ==
    /\ last.op = "find_definition"
    /\ last.args.symbol_name \in DOMAIN index.definitions
    /\ last.ret.symbols # << >>
    /\ Len(last.ret.symbols) < Len(index.definitions[last.args.symbol_name])

\* C4: clear locality.  clear_file(f) changes no record of a file g # f and no
\* file_definitions[g], also when g defines a name that f defined.
C4_ClearLocality ==
    [][last'.op = "clear_file" =>
          \A g \in Files \ {last'.args.file_path} :
              /\ \A n \in DOMAIN index.definitions :
                     /\ RecordsOf(index, g)[n] # << >> => n \in DOMAIN index'.definitions
                     /\ n \in DOMAIN index'.definitions =>
                            RecordsOf(index', g)[n] = RecordsOf(index, g)[n]
              /\ g \in DOMAIN index.file_definitions <=> g \in DOMAIN index'.file_definitions
              /\ NamesOf(index', g) = NamesOf(index, g)]_vars

\* The cleared file defined a name that the other file keeps.
C4_Witness ==
    /\ last.op = "clear_file"
    /\ \E n \in last.args.names :
           /\ n \in DOMAIN index.definitions
           /\ \E g \in DOMAIN index.file_definitions : n \in index.file_definitions[g]

SameRecords(d1, d2) ==
    /\ DOMAIN d1 = DOMAIN d2
    /\ \A n \in DOMAIN d1 : Range(d1[n]) = Range(d2[n])

\* C5: persistence round trip.  save_index(root), clear_all(), load_index(root)
\* with no other writer in between: the load returns true, definitions holds the
\* records it held at the save, file_definitions is what it was at the save.
C5_RoundTrip ==
    rt.phase = "loaded" =>
        /\ rt.ret = TRUE
        /\ SameRecords(index.definitions, rt.saved.definitions)
        /\ index.file_definitions = rt.saved.file_definitions

\* The round trip of an index in which a file defines two names.
C5_Witness ==
    /\ rt.phase = "loaded"
    /\ \E f \in DOMAIN rt.saved.file_definitions :
           Cardinality(rt.saved.file_definitions[f]) = 2
    /\ Cardinality(DOMAIN rt.saved.file_definitions) = 2

\* The snapshot file a load_index(root) step reads.
FileRead(root_path) == disk[get_index_path(root_path)]

IsLoad(root_path) == last'.op = "load_index" /\ last'.args.root_path = root_path

\* C6: version guard.  A load that finds a snapshot of another version returns
\* false, removes the file and leaves both maps of the live index as they were.
C6_VersionGuard ==
    [][\A r \in RootPaths :
          (/\ IsLoad(r)
           /\ FileRead(r) # NoFile
           /\ FileRead(r)[1].version # INDEX_VERSION)
          => /\ last'.ret = OkBool(FALSE)
             /\ disk'[get_index_path(r)] = NoFile
             /\ index' = index]_vars

\* A stale file was found while the live index held definitions.
C6_Witness ==
    /\ last.op = "load_index"
    /\ last.args.found.version \notin {0, INDEX_VERSION}
    /\ index.definitions # << >>

\* C7: root guard.  A load that finds a snapshot of the current version stored
\* for another root returns false, keeps the file as it is and leaves the live
\* index as it was.
C7_RootGuard ==
    [][\A r \in RootPaths :
          (/\ IsLoad(r)
           /\ FileRead(r) # NoFile
           /\ FileRead(r)[1].version = INDEX_VERSION
           /\ FileRead(r)[1].root_path # r)
          => /\ last'.ret = OkBool(FALSE)
             /\ disk' = disk
             /\ index' = index]_vars

\* The other root's snapshot holds definitions the live index does not.
C7_Witness ==
    /\ last.op = "load_index"
    /\ last.args.found.version = INDEX_VERSION
    /\ last.args.found.root_path # last.args.root_path
    /\ FileRead(last.args.root_path)[1].definitions # index.definitions

Compatible(file, root_path) ==
    /\ file # NoFile
    /\ file[1].version = INDEX_VERSION
    /\ file[1].root_path = root_path

\* C8: load_index returns true exactly when a snapshot file exists for the
\* root, of the current version and stored for that root; then the two maps of
\* the live index become the stored ones; with no file it returns false and the
\* live index stays.
C8_LoadAppliesIffCompatible ==
    [][\A r \in RootPaths : IsLoad(r) =>
          /\ last'.ret.ok
          /\ last'.ret.flag <=> Compatible(FileRead(r), r)
          /\ Compatible(FileRead(r), r) =>
                /\ index'.definitions = FileRead(r)[1].definitions
                /\ DOMAIN index'.file_definitions = DOMAIN FileRead(r)[1].file_definitions
                /\ \A f \in DOMAIN index'.file_definitions :
                       index'.file_definitions[f] = Range(FileRead(r)[1].file_definitions[f])
          /\ FileRead(r) = NoFile => (last'.ret = OkBool(FALSE) /\ index' = index)]_vars

\* A compatible snapshot replaced a live index that differed from it.
C8_Witness ==
    /\ last.op = "load_index"
    /\ last.ret = OkBool(TRUE)
    /\ rt.phase = "none"
    /\ index.definitions # << >>

\* C9: index_file invalidates first.  When the language has no parser or the
\* text does not parse, the file ends with no record and no file_definitions
\* entry; otherwise it holds one record per capture of the new text, so none of
\* its earlier records is left.
C9_InvalidateFirst ==
    last.op = "index_file" =>
        LET f == last.args.file_path
            mine == [n \in DOMAIN index.definitions |-> Len(RecordsOf(index, f)[n])]
        IN  IF Parsed(last.args.content, last.args.lang_id)
            THEN \A n \in DOMAIN index.definitions :
                     mine[n] = Len(SelectSeq(
                                   captures(get_definition_query(last.args.lang_id),
                                            last.args.content.sites),
                                   LAMBDA c : c.node.name = n))
            ELSE /\ \A n \in DOMAIN index.definitions : mine[n] = 0
                 /\ f \notin DOMAIN index.file_definitions

\* An indexed file was handed in again and got no tree or has no parser.
C9_Witness ==
    /\ last.op = "index_file"
    /\ last.args.names # {}
    /\ ~Parsed(last.args.content, last.args.lang_id)
    /\ index.definitions # << >>

(***************************************************************************)
(* The indexer and the reference resolver side by side (SpecI)             *)
(***************************************************************************)
NextI ==
    \/ \E id \in {"ts_string", "py_member"} : write_source_file(SourceFiles[id])
    \/ \E file \in { FileArg("a.src", PyFooBar, "python"),
                      FileArg("b.src", TsExpFoo, "typescript") } :
           code_nav_index_file(file.file_path, file.content, file.lang_id)
    \/ code_nav_index_files_batch(<< FileArg("a.src", PyFoo, "python"),
                                     FileArg("b.src", PyFooBar, "python") >>)
    \/ code_nav_clear_all
    \/ \E l \in {"typescript", "python"} :
           code_nav_find_references_hybrid(<<"f", "o", "o">>, get_lang_family(l), "/project/a")

SpecI == InitNoSnapshot /\ [][NextI]_vars

(***************************************************************************)
(* The parallel text search (SpecS).  search_content hands every walked    *)
(* file to a worker of the thread pool; the workers share the results list *)
(* and the total_results counter, each behind its mutex.                   *)
(***************************************************************************)
\* The caps a ContentSearch is built with (with_max_results,
\* with_max_matches_per_file).
SearchCaps == {1, 2}

\* lines.txt: four lines, three of which name foo.
LinesOfFoo ==
    [ path |-> [root |-> "/project/a", dir |-> "src", name |-> << "lines", "txt" >>],
      readable |-> TRUE,
      text |-> << "f", "o", "o", "\n", "b", "a", "r", "\n", "f", "o", "o", "\n",
                  "f", "o", "o" >>,
      parses |-> FALSE, leaves |-> {} ]

\* search_content up to the parallel phase: the walk collects the files, the
\* shared results list is empty and the counter is 0.
search_content_call(query, root_path, max_results, max_matches_per_file) ==
    /\ search.phase # "running"
    /\ query # << >>
    /\ LET files == {f \in project :
                        /\ f.path.root = root_path
                        /\ f.path.dir \notin EXCLUDED_DIRS
                        /\ is_valid_file(f.path)}
       IN  search' = [ phase |-> "running", query |-> query, root_path |-> root_path,
                       max_results |-> max_results,
                       max_matches_per_file |-> max_matches_per_file,
                       workers |-> [f \in files |-> [pc |-> "check", result |-> << >>]],
                       results |-> << >>, total_results |-> 0 ]
    /\ UNCHANGED <<index, disk, last, rt, lock, task, committed, project>>

\* Mutant of search_worker: the push is not guarded by the counter.
search_worker_unguarded_push(entry) ==
    /\ search.phase = "running"
    /\ entry \in DOMAIN search.workers
    /\ LET worker == search.workers[entry]
           Goto(pc) == [search EXCEPT !.workers[entry].pc = pc]
       IN  \/ /\ worker.pc = "check"
              /\ search' = IF search.total_results >= search.max_results
                           THEN Goto("done") ELSE Goto("search")
           \/ /\ worker.pc = "search"
              /\ LET result == IF entry \in project
                               THEN search_in_file_fast(entry, search.query,
                                                        search.max_matches_per_file)
                               ELSE << >>
                 IN  search' = [search EXCEPT
                                   !.workers[entry] =
                                       [pc |-> IF IsNone(result) THEN "done" ELSE "push",
                                        result |-> result]]
           \/ /\ worker.pc = "push"
              /\ search' = [Goto("done") EXCEPT
                               !.results = Append(@, worker.result[1]),
                               !.total_results = @ + 1]
    /\ UNCHANGED <<index, disk, last, rt, lock, task, committed, project>>

\* The closure that files.par_iter().for_each runs for one entry, in three
\* steps: the early termination check under the total_results mutex, the
\* search of the file with no mutex held, and the push under both mutexes.
search_worker(entry) ==
    /\ search.phase = "running"
    /\ entry \in DOMAIN search.workers
    /\ LET worker == search.workers[entry]
           Goto(pc) == [search EXCEPT !.workers[entry].pc = pc]
       IN  \/ /\ worker.pc = "check"
              /\ search' = IF search.total_results >= search.max_results
                           THEN Goto("done") ELSE Goto("search")
           \/ /\ worker.pc = "search"
              \* a file removed since the walk cannot be opened: Err, skipped
              /\ LET result == IF entry \in project
                               THEN search_in_file_fast(entry, search.query,
                                                        search.max_matches_per_file)
                               ELSE << >>
                 IN  search' = [search EXCEPT
                                   !.workers[entry] =
                                       [pc |-> IF IsNone(result) THEN "done" ELSE "push",
                                        result |-> result]]
           \/ /\ worker.pc = "push"
              /\ search' = IF search.total_results < search.max_results
                           THEN [Goto("done") EXCEPT
                                    !.results = Append(@, worker.result[1]),
                                    !.total_results = @ + 1]
                           ELSE Goto("done")
    /\ UNCHANGED <<index, disk, last, rt, lock, task, committed, project>>

\* for_each has joined every worker: final_results is a clone of the list.
search_content_return ==
    /\ search.phase = "running"
    /\ \A entry \in DOMAIN search.workers : search.workers[entry].pc = "done"
    /\ search' = [search EXCEPT !.phase = "returned"]
    /\ UNCHANGED <<index, disk, last, rt, lock, task, committed, project>>

NextS ==
    \/ \E file \in {SourceFiles.ts_string, SourceFiles.js_comment, LinesOfFoo} :
           write_source_file(file)
    \/ \E file \in project : remove_source_file(file)
    \/ \E max_results \in SearchCaps, max_matches_per_file \in SearchCaps :
           search_content_call(<<"f", "o", "o">>, "/project/a",
                               max_results, max_matches_per_file)
    \/ \E entry \in DOMAIN search.workers : search_worker(entry)
    \/ search_content_return

SpecS == InitNoSnapshot /\ [][NextS]_vars

(***************************************************************************)
(* Concurrent invocations (SpecC).  A command is a sequence of steps; the  *)
(* steps of different invocations interleave.  The index is reached only   *)
(* through the RwLock of CodeNavState.                                     *)
(***************************************************************************)

\* Mutant of poisoned: the poison flag is disregarded, the guard is used all the same.
poisoned_disregarded(l) == FALSE

\* state.0.write() / state.0.read() give Err on a lock whose write guard was
\* dropped by a panic; map_err(..)? then ends the command.
poisoned(l) == l.poisoned

\* RwLock::write() returns once no guard is out; RwLock::read() once no write
\* guard is out.
write_available(l) == l.writer = 0 /\ l.readers = {}

\* Mutant of read_available: a reader does not wait for the writer.
read_available_during_write(l) == TRUE

read_available(l) == l.writer = 0

\* Sample arguments of the concurrent invocations.
IndexArgs == {FileArg("a.src", PyFooBar, "python"), FileArg("b.src", PyFoo, "python")}
BatchArgs == { << FileArg("a.src", PyFooBar, "python"), FileArg("b.src", PyFoo, "python") >> }
QueryArgs == {<<"foo", "python">>}
SaveRoots == {"/project/a"}

At(t, pc) == task[t].pc = pc
Goto(t, pc) == task' = [task EXCEPT ![t].pc = pc]
Return(t) == task' = [task EXCEPT ![t] = TaskIdle]

AcquireWrite(t, from, to) ==
    /\ At(t, from)
    /\ write_available(lock)
    /\ ~poisoned(lock)
    /\ lock' = [lock EXCEPT !.writer = t]
    /\ Goto(t, to)
    /\ UNCHANGED <<search, project, index, disk, last, rt, committed>>

AcquireRead(t, from, to) ==
    /\ At(t, from)
    /\ read_available(lock)
    /\ ~poisoned(lock)
    /\ lock' = [lock EXCEPT !.readers = @ \cup {t}]
    /\ Goto(t, to)
    /\ UNCHANGED <<search, project, index, disk, last, rt, committed>>

\* The write guard is dropped at the end of the command.
ReleaseWrite(t, from) ==
    /\ At(t, from)
    /\ lock' = [lock EXCEPT !.writer = 0]
    /\ committed' = index
    /\ Return(t)
    /\ UNCHANGED <<search, project, index, disk, last, rt>>

\* ---- code_nav_index_file ----
IndexFile_Call(t) ==
    /\ At(t, "idle")
    /\ \E a \in IndexArgs :
           task' = [task EXCEPT ![t] = [TaskIdle EXCEPT !.pc = "if_write",
                                            !.file_path = a.file_path,
                                            !.content = Some(a.content),
                                            !.lang_id = a.lang_id]]
    /\ UNCHANGED <<search, project, index, disk, last, rt, lock, committed>>

IndexFile_Lock(t) == AcquireWrite(t, "if_write", "if_clear")

IndexFile_Clear(t) ==
    /\ At(t, "if_clear")
    /\ index' = clear_file(index, task[t].file_path)
    /\ Goto(t, "if_parse")
    /\ UNCHANGED <<search, project, disk, last, rt, lock, committed>>

\* Parser lookup, parse and capture loop (lines 204-255).
IndexFile_Parse(t) ==
    /\ At(t, "if_parse")
    /\ LET content == task[t].content[1]
       IN  IF task[t].lang_id \notin RegisteredLangs \/ IsNone(parse(content))
           THEN Goto(t, "if_release")
           ELSE task' = [task EXCEPT ![t].pc = "if_insert",
                             ![t].symbols = extract_definitions(task[t].file_path,
                                                parse(content)[1], task[t].lang_id)]
    /\ UNCHANGED <<search, project, index, disk, last, rt, lock, committed>>

IndexFile_InsertReverse(t) ==
    /\ At(t, "if_insert")
    /\ LET defined_names == {task[t].symbols[i].name : i \in DOMAIN task[t].symbols}
       IN  index' = IF defined_names # {}
                    THEN [index EXCEPT !.file_definitions =
                              Put(@, task[t].file_path, defined_names)]
                    ELSE index
    /\ Goto(t, "if_push")
    /\ UNCHANGED <<search, project, disk, last, rt, lock, committed>>

IndexFile_Push(t) ==
    /\ At(t, "if_push")
    /\ index' = [index EXCEPT !.definitions = push_all(@, task[t].symbols)]
    /\ Goto(t, "if_release")
    /\ UNCHANGED <<search, project, disk, last, rt, lock, committed>>

IndexFile_Return(t) == ReleaseWrite(t, "if_release")

\* ---- code_nav_clear_file ----
ClearFile_Call(t) ==
    /\ At(t, "idle")
    /\ \E f \in Files :
           task' = [task EXCEPT ![t] = [TaskIdle EXCEPT !.pc = "cf_write", !.file_path = f]]
    /\ UNCHANGED <<search, project, index, disk, last, rt, lock, committed>>

ClearFile_Lock(t) == AcquireWrite(t, "cf_write", "cf_clear")

ClearFile_Clear(t) ==
    /\ At(t, "cf_clear")
    /\ index' = clear_file(index, task[t].file_path)
    /\ Goto(t, "cf_release")
    /\ UNCHANGED <<search, project, disk, last, rt, lock, committed>>

ClearFile_Return(t) == ReleaseWrite(t, "cf_release")

\* ---- code_nav_clear_all ----
ClearAll_Call(t) ==
    /\ At(t, "idle")
    /\ Goto(t, "ca_write")
    /\ UNCHANGED <<search, project, index, disk, last, rt, lock, committed>>

ClearAll_Lock(t) == AcquireWrite(t, "ca_write", "ca_definitions")

ClearAll_Definitions(t) ==
    /\ At(t, "ca_definitions")
    /\ index' = [index EXCEPT !.definitions = << >>]
    /\ Goto(t, "ca_file_definitions")
    /\ UNCHANGED <<search, project, disk, last, rt, lock, committed>>

ClearAll_FileDefinitions(t) ==
    /\ At(t, "ca_file_definitions")
    /\ index' = [index EXCEPT !.file_definitions = << >>]
    /\ Goto(t, "ca_release")
    /\ UNCHANGED <<search, project, disk, last, rt, lock, committed>>

ClearAll_Return(t) == ReleaseWrite(t, "ca_release")

\* ---- code_nav_find_definition, code_nav_get_indexed_files ----
FindDefinition_Call(t) ==
    /\ At(t, "idle")
    /\ \E q \in QueryArgs :
           task' = [task EXCEPT ![t] = [TaskIdle EXCEPT !.pc = "fd_read",
                                            !.symbol_name = q[1], !.lang_id = q[2]]]
    /\ UNCHANGED <<search, project, index, disk, last, rt, lock, committed>>

FindDefinition_Lock(t) == AcquireRead(t, "fd_read", "fd_reading")

\* The lookup; the read guard is dropped on return.
FindDefinition_Return(t) ==
    /\ At(t, "fd_reading")
    /\ lock' = [lock EXCEPT !.readers = @ \ {t}]
    /\ Return(t)
    /\ UNCHANGED <<search, project, index, disk, last, rt, committed>>

GetIndexedFiles_Call(t) ==
    /\ At(t, "idle")
    /\ Goto(t, "gf_read")
    /\ UNCHANGED <<search, project, index, disk, last, rt, lock, committed>>

GetIndexedFiles_Lock(t) == AcquireRead(t, "gf_read", "gf_reading")

GetIndexedFiles_Return(t) ==
    /\ At(t, "gf_reading")
    /\ lock' = [lock EXCEPT !.readers = @ \ {t}]
    /\ Return(t)
    /\ UNCHANGED <<search, project, index, disk, last, rt, committed>>

\* ---- code_nav_find_references_hybrid ----
FindReferences_Call(t) ==
    /\ At(t, "idle")
    /\ \E q \in {<< <<"f", "o", "o">>, "js_family", "/project/a" >>} :
           task' = [task EXCEPT ![t] = [TaskIdle EXCEPT !.pc = "fr_read",
                                            !.symbol_name = q[1], !.lang_id = q[2],
                                            !.root_path = q[3]]]
    /\ UNCHANGED <<search, project, index, disk, last, rt, lock, committed>>

FindReferences_Lock(t) == AcquireRead(t, "fr_read", "fr_searching")

\* The search and the validation run with the read guard out; it is dropped on
\* return.
FindReferences_Return(t) ==
    /\ At(t, "fr_searching")
    /\ \E references \in find_references_hybrid(project, task[t].symbol_name,
                                                 task[t].lang_id, task[t].root_path) :
           lock' = [lock EXCEPT !.readers = @ \ {t}]
    /\ Return(t)
    /\ UNCHANGED <<search, project, index, disk, last, rt, committed>>

\* ---- code_nav_index_files_batch ----
Batch_Call(t) ==
    /\ At(t, "idle")
    /\ \E files \in BatchArgs :
           task' = [task EXCEPT ![t] = [TaskIdle EXCEPT !.pc = "bt_parallel", !.files = files]]
    /\ UNCHANGED <<search, project, index, disk, last, rt, lock, committed>>

\* Mutant of Batch_Parallel: the write guard is taken before the workers run.
Batch_Parallel_under_lock(t) ==
    /\ At(t, "bt_parallel")
    /\ write_available(lock)
    /\ ~poisoned(lock)
    /\ lock' = [lock EXCEPT !.writer = t]
    /\ task' = [task EXCEPT ![t].pc = "bt_merge",
                    ![t].def_results = par_filter_map(task[t].files)]
    /\ UNCHANGED <<search, project, index, disk, last, rt, committed>>

Batch_Parallel(t) ==
    /\ At(t, "bt_parallel")
    /\ task' = [task EXCEPT ![t].pc = "bt_write",
                    ![t].def_results = par_filter_map(task[t].files)]
    /\ UNCHANGED <<search, project, index, disk, last, rt, lock, committed>>

Batch_Lock(t) == AcquireWrite(t, "bt_write", "bt_merge")

Batch_Merge(t) ==
    /\ At(t, "bt_merge")
    /\ task[t].def_results # << >>
    /\ index' = merge_result(index, Head(task[t].def_results))
    /\ task' = [task EXCEPT ![t].def_results = Tail(@)]
    /\ UNCHANGED <<search, project, disk, last, rt, lock, committed>>

Batch_Return(t) ==
    /\ task[t].def_results = << >>
    /\ ReleaseWrite(t, "bt_merge")

\* ---- code_nav_save_index ----
Save_Call(t) ==
    /\ At(t, "idle")
    /\ \E r \in SaveRoots :
           task' = [task EXCEPT ![t] = [TaskIdle EXCEPT !.pc = "sv_read", !.root_path = r]]
    /\ UNCHANGED <<search, project, index, disk, last, rt, lock, committed>>

Save_Lock(t) == AcquireRead(t, "sv_read", "sv_reading")

\* Both maps are cloned into `persisted` (lines 925-932).
Save_Snapshot(t) ==
    /\ At(t, "sv_reading")
    /\ \E now \in Epochs, ts \in TimestampMaps :
           task' = [task EXCEPT ![t].pc = "sv_drop",
                        ![t].persisted = Some(PersistedIndex(INDEX_VERSION,
                                                  task[t].root_path, now, ts, index))]
    \* history: the index state that the latest snapshot captured
    /\ rt' = [phase |-> "snapshot", root_path |-> task[t].root_path,
              saved |-> index, ret |-> FALSE]
    /\ UNCHANGED <<search, project, index, disk, last, lock, committed>>

\* Mutant of Save_Drop: the read guard is kept until the command returns.
Save_Drop_keeps_guard(t) ==
    /\ At(t, "sv_drop")
    /\ Goto(t, "sv_write")
    /\ UNCHANGED <<search, project, index, disk, last, rt, lock, committed>>

Save_Drop(t) ==
    /\ At(t, "sv_drop")
    /\ lock' = [lock EXCEPT !.readers = @ \ {t}]
    /\ Goto(t, "sv_write")
    /\ UNCHANGED <<search, project, index, disk, last, rt, committed>>

Save_Write(t) ==
    /\ At(t, "sv_write")
    /\ \E json \in to_string(task[t].persisted[1]) :
           disk' = [disk EXCEPT ![get_index_path(task[t].root_path)] = Some(json)]
    /\ Return(t)
    /\ UNCHANGED <<search, project, index, last, rt, lock, committed>>

\* ---- code_nav_load_index ----
Load_Call(t) ==
    /\ At(t, "idle")
    /\ \E r \in SaveRoots :
           task' = [task EXCEPT ![t] = [TaskIdle EXCEPT !.pc = "ld_exists", !.root_path = r]]
    /\ UNCHANGED <<search, project, index, disk, last, rt, lock, committed>>

Load_Exists(t) ==
    /\ At(t, "ld_exists")
    /\ IF exists(get_index_path(task[t].root_path))
       THEN Goto(t, "ld_read")
       ELSE Return(t)
    /\ UNCHANGED <<search, project, index, disk, last, rt, lock, committed>>

\* read_to_string, from_str and the two guards; a file that has gone since the
\* exists() call is a read error.
Load_Read(t) ==
    /\ At(t, "ld_read")
    /\ LET path == get_index_path(task[t].root_path)
       IN  IF ~exists(path) THEN Return(t)
           ELSE LET persisted == from_str(disk[path][1])
                IN  IF persisted.version # INDEX_VERSION THEN Goto(t, "ld_remove")
                    ELSE IF persisted.root_path # task[t].root_path THEN Return(t)
                    ELSE task' = [task EXCEPT ![t].pc = "ld_write",
                                      ![t].persisted = Some(persisted)]
    /\ UNCHANGED <<search, project, index, disk, last, rt, lock, committed>>

Load_Remove(t) ==
    /\ At(t, "ld_remove")
    /\ disk' = [disk EXCEPT ![get_index_path(task[t].root_path)] = NoFile]
    /\ Return(t)
    /\ UNCHANGED <<search, project, index, last, rt, lock, committed>>

Load_Lock(t) == AcquireWrite(t, "ld_write", "ld_clear")

Load_ClearAll(t) ==
    /\ At(t, "ld_clear")
    /\ index' = clear_all(index)
    /\ Goto(t, "ld_definitions")
    /\ UNCHANGED <<search, project, disk, last, rt, lock, committed>>

Load_Definitions(t) ==
    /\ At(t, "ld_definitions")
    /\ index' = [index EXCEPT !.definitions = task[t].persisted[1].definitions]
    /\ Goto(t, "ld_file_definitions")
    /\ UNCHANGED <<search, project, disk, last, rt, lock, committed>>

Load_FileDefinitions(t) ==
    /\ At(t, "ld_file_definitions")
    /\ index' = [index EXCEPT !.file_definitions = task[t].persisted[1].file_definitions]
    /\ Goto(t, "ld_release")
    /\ UNCHANGED <<search, project, disk, last, rt, lock, committed>>

Load_Return(t) == ReleaseWrite(t, "ld_release")

\* One step of task t.
Steps(t) ==
    \/ IndexFile_Call(t) \/ IndexFile_Lock(t) \/ IndexFile_Clear(t)
    \/ IndexFile_Parse(t) \/ IndexFile_InsertReverse(t) \/ IndexFile_Push(t)
    \/ IndexFile_Return(t)
    \/ ClearFile_Call(t) \/ ClearFile_Lock(t) \/ ClearFile_Clear(t) \/ ClearFile_Return(t)
    \/ ClearAll_Call(t) \/ ClearAll_Lock(t) \/ ClearAll_Definitions(t)
    \/ ClearAll_FileDefinitions(t) \/ ClearAll_Return(t)
    \/ FindDefinition_Call(t) \/ FindDefinition_Lock(t) \/ FindDefinition_Return(t)
    \/ GetIndexedFiles_Call(t) \/ GetIndexedFiles_Lock(t) \/ GetIndexedFiles_Return(t)
    \/ FindReferences_Call(t) \/ FindReferences_Lock(t) \/ FindReferences_Return(t)
    \/ Batch_Call(t) \/ Batch_Parallel(t) \/ Batch_Lock(t) \/ Batch_Merge(t)
    \/ Batch_Return(t)
    \/ Save_Call(t) \/ Save_Lock(t) \/ Save_Snapshot(t) \/ Save_Drop(t) \/ Save_Write(t)
    \/ Load_Call(t) \/ Load_Exists(t) \/ Load_Read(t) \/ Load_Remove(t) \/ Load_Lock(t)
    \/ Load_ClearAll(t) \/ Load_Definitions(t) \/ Load_FileDefinitions(t)
    \/ Load_Return(t)

NextC == \E t \in Tasks : Steps(t)

SpecC == Init /\ [][NextC]_vars

\* The concurrent commands under fair scheduling: an invocation that can take its
\* next step does take it, and one that waits for the lock gets it if the lock
\* is free again and again.  Invoking a command is left to the caller, who here
\* indexes and clears b.src alone, sends the one batch, and asks for a save as
\* long as no snapshot has been taken.  The run starts with a snapshot file of
\* an older format version on disk.
SpecL ==
    /\ Init
    /\ \A path \in IndexPaths :
           /\ exists(path)
           /\ disk[path][1].version = 1
           /\ disk[path][1].root_path = "/project/a"
    /\ [][\E t \in Tasks :
              /\ Steps(t)
              /\ task'[t].file_path # "a.src"
              /\ task'[t].pc = "sv_read" => rt = NoRoundTrip]_vars
    /\ \A t \in Tasks : SF_vars(Steps(t) /\ task[t].pc # "idle")

(***************************************************************************)
(* Properties of the concurrent commands                                   *)
(***************************************************************************)

\* The positions at which an invocation holds a read guard and reads the index.
ReadingPcs == {"fd_reading", "gf_reading", "sv_reading"}

\* The positions at which an invocation waits for the write guard.
WriteWaitPcs == {"if_write", "cf_write", "ca_write", "bt_write", "ld_write"}

AsIndex(persisted) ==
    [definitions |-> persisted.definitions, file_definitions |-> persisted.file_definitions]

\* C10: no partial visibility.  Whenever find_definition, get_indexed_files or
\* the snapshot step of save_index reads, the index is as the last writer left
\* it when it dropped the write guard: no index_file, clear_file, clear_all,
\* batch merge or load is half done, and the reverse index matches.  What
\* save_index cloned is one such state.
C10_NoPartialVisibility ==
    \A t \in Tasks :
        /\ task[t].pc \in ReadingPcs =>
              /\ index = committed
              /\ ReverseIndexHolds(index)
        /\ task[t].pc \in {"sv_drop", "sv_write"} =>
              ReverseIndexHolds(AsIndex(task[t].persisted[1]))

\* A reader reads a non-empty index while a batch merge or a load waits for the
\* write guard.
C10_Witness ==
    \E r, w \in Tasks :
        /\ task[r].pc \in ReadingPcs
        /\ task[w].pc \in {"bt_write", "ld_write"}
        /\ index.file_definitions # << >>

(***************************************************************************)
(* Concurrent commands on a lock that can be poisoned (SpecP): a command   *)
(* that panics with the write guard out poisons the RwLock.                *)
(***************************************************************************)

\* The positions at which an invocation waits for the read guard.
ReadWaitPcs == {"fd_read", "fr_read", "gf_read", "sv_read"}

\* The positions at which an invocation holds the write guard.
WriteHeldPcs ==
    { "if_clear", "if_parse", "if_insert", "if_push", "if_release",
      "cf_clear", "cf_release",
      "ca_definitions", "ca_file_definitions", "ca_release",
      "bt_merge",
      "ld_clear", "ld_definitions", "ld_file_definitions", "ld_release" }

ReturnErr(t) == task' = [task EXCEPT ![t] = [TaskIdle EXCEPT !.result = "Err"]]

\* write() / read() on a poisoned lock: Err once the lock could be taken, and
\* the `?` returns it to the caller.
Acquire_Poisoned(t) ==
    /\ \/ task[t].pc \in WriteWaitPcs /\ write_available(lock)
       \/ task[t].pc \in ReadWaitPcs /\ read_available(lock)
    /\ poisoned(lock)
    /\ ReturnErr(t)
    /\ UNCHANGED <<search, project, index, disk, last, rt, lock, committed>>

\* A panic while the write guard is out: unwinding drops the guard, which
\* poisons the lock; the index stays as the command left it.
Panic(t) ==
    /\ task[t].pc \in WriteHeldPcs
    /\ lock' = [lock EXCEPT !.writer = 0, !.poisoned = TRUE]
    /\ committed' = index
    /\ task' = [task EXCEPT ![t] = [TaskIdle EXCEPT !.result = "Panic"]]
    /\ UNCHANGED <<search, project, index, disk, last, rt>>

NextP ==
    \E t \in Tasks :
        \/ Steps(t)
        \/ Acquire_Poisoned(t)
        \/ Panic(t)

SpecP == Init /\ [][NextP]_vars

\* The positions of a command before it asks for the lock.
BeforeLockPcs == {"bt_parallel", "ld_exists", "ld_read"}

\* C11: a poisoned lock is an error.  When index_file, index_files_batch,
\* find_definition, find_references_hybrid, clear_file, clear_all, save_index,
\* get_indexed_files, or load_index with a compatible snapshot read, asks for
\* the lock and the lock is poisoned, the command ends there with an error; and
\* no step a command takes up to and including that one changes the live index
\* or a snapshot file.
C11_PoisonedLockIsAnError ==
    [][\A t \in Tasks :
          /\ (task'[t] # task[t] /\ task'[t].pc \in WriteWaitPcs \cup ReadWaitPcs \cup BeforeLockPcs)
                 => (index' = index /\ disk' = disk)
          /\ (task'[t] # task[t] /\ task[t].pc \in WriteWaitPcs \cup ReadWaitPcs /\ lock.poisoned)
                 => /\ task'[t].pc = "idle"
                    /\ task'[t].result = "Err"
                    /\ index' = index
                    /\ disk' = disk]_vars

\* A command failed on the poisoned lock while the index holds definitions, a
\* snapshot file exists and a load that read a compatible snapshot waits for
\* the write guard.
C11_Witness ==
    \E t, u \in Tasks :
        /\ task[t].result = "Err"
        /\ task[u].pc = "ld_write"
        /\ lock.poisoned
        /\ index.definitions # << >>
        /\ \E path \in IndexPaths : exists(path)

(***************************************************************************)
(* Properties of the batch indexer (SpecB)                                 *)
(***************************************************************************)
\* A tuple of the batch that the parallel phase does not skip.
IsParsed(file) == file.lang_id \in RegisteredLangs /\ ~IsNone(parse(file.content))

\* The records of file_path under name n, in list order.
RecordsAt(idx, file_path, n) ==
    IF n \in DOMAIN idx.definitions
    THEN SelectSeq(idx.definitions[n], LAMBDA s : s.file_path = file_path)
    ELSE << >>

\* idx holds for file_path exactly the definitions of the tuple file.
HoldsDefinitionsOf(idx, file_path, file) ==
    LET definitions == extract_definitions(file_path, parse(file.content)[1], file.lang_id)
        names == {definitions[i].name : i \in DOMAIN definitions}
    IN  /\ NamesOf(idx, file_path) = names
        /\ \A n \in names \cup DOMAIN idx.definitions :
               RecordsAt(idx, file_path, n) = SelectSeq(definitions, LAMBDA s : s.name = n)

\* idx holds for file_path the definitions of one parsed tuple of files.
MergedFrom(idx, files, file_path) ==
    \E i \in DOMAIN files :
        /\ files[i].file_path = file_path
        /\ IsParsed(files[i])
        /\ HoldsDefinitionsOf(idx, file_path, files[i])

\* idx2 holds for file_path what idx1 holds.
SameEntries(idx1, idx2, file_path) ==
    /\ NamesOf(idx1, file_path) = NamesOf(idx2, file_path)
    /\ (file_path \in DOMAIN idx1.file_definitions) = (file_path \in DOMAIN idx2.file_definitions)
    /\ \A n \in DOMAIN idx1.definitions \cup DOMAIN idx2.definitions :
           RecordsAt(idx1, file_path, n) = RecordsAt(idx2, file_path, n)

\* C12: batch replacement.  After index_files_batch, for every path of the batch
\* that has a parsed tuple, the records of that path in the index are exactly
\* the definitions of one parsed tuple of the batch for that path: nothing the
\* path held before the batch and nothing of another tuple is mixed in.
C12_BatchReplacement ==
    [][last'.op = "index_files_batch" =>
          \A f \in Files :
              (\E i \in DOMAIN last'.args.files :
                   last'.args.files[i].file_path = f /\ IsParsed(last'.args.files[i]))
                  => MergedFrom(index', last'.args.files, f)]_vars

\* A batch with two parsed tuples of different content for one path has run,
\* the first defining two names and the second one; the path holds one name.
C12_Witness ==
    /\ last.op = "index_files_batch"
    /\ Len(last.args.files) = 2
    /\ last.args.files[1].file_path = last.args.files[2].file_path
    /\ last.args.files[1].content = PyFooBar
    /\ last.args.files[2].content = PyFoo
    /\ IsParsed(last.args.files[1]) /\ IsParsed(last.args.files[2])
    /\ Cardinality(NamesOf(index, last.args.files[1].file_path)) = 1

\* C13 as stated: a skipped tuple is no error, the call succeeds, every path
\* with a parsed tuple is merged, and the entries held for the path of a
\* skipped tuple are the ones held before the call.
C13_Original ==
    [][last'.op = "index_files_batch" =>
          /\ last'.ret = OkUnit
          /\ \A i \in DOMAIN last'.args.files :
                 LET file == last'.args.files[i]
                 IN  IF IsParsed(file)
                     THEN MergedFrom(index', last'.args.files, file.file_path)
                     ELSE SameEntries(index, index', file.file_path)]_vars

\* C13: batch resilience.  A skipped tuple is no error, the call succeeds,
\* every path with a parsed tuple is merged, and the entries held for the path
\* of a skipped tuple are the ones held before the call unless the batch also
\* holds a parsed tuple for the same path.
C13_BatchResilience ==
    [][last'.op = "index_files_batch" =>
          /\ last'.ret = OkUnit
          /\ \A i \in DOMAIN last'.args.files :
                 LET file == last'.args.files[i]
                     parsed_too == \E j \in DOMAIN last'.args.files :
                                      /\ last'.args.files[j].file_path = file.file_path
                                      /\ IsParsed(last'.args.files[j])
                 IN  IF parsed_too
                     THEN MergedFrom(index', last'.args.files, file.file_path)
                     ELSE SameEntries(index, index', file.file_path)]_vars

\* A batch of a skipped tuple for one path and a parsed tuple for the other
\* path has run, and both paths are indexed: the records of the skipped
\* tuple's path are those of an earlier call.
C13_Witness ==
    /\ last.op = "index_files_batch"
    /\ Len(last.args.files) = 2
    /\ ~IsParsed(last.args.files[1])
    /\ IsParsed(last.args.files[2])
    /\ last.args.files[1].file_path # last.args.files[2].file_path
    /\ DOMAIN index.file_definitions = Files

(***************************************************************************)
(* Properties of clear_file, clear_all, delete_index, get_index_metadata   *)
(* (Spec)                                                                  *)
(***************************************************************************)
\* C14: clear_file postcondition.  After clear_file(f), file_definitions has no
\* entry for f, no record of f remains under a name that the reverse-index
\* entry of f listed, and no name of definitions maps to an empty list;
\* clear_file(f) for a file without a reverse-index entry changes nothing.
C14_ClearFilePostcondition ==
    [][last'.op = "clear_file" =>
          LET f == last'.args.file_path
          IN  /\ f \notin DOMAIN index'.file_definitions
              /\ \A n \in last'.args.names : RecordsAt(index', f, n) = << >>
              /\ \A n \in DOMAIN index'.definitions : index'.definitions[n] # << >>
              /\ f \notin DOMAIN index.file_definitions => index' = index]_vars

\* A file that listed two names was cleared; one of the names is gone, the
\* other is kept by the other file.
C14_Witness ==
    /\ last.op = "clear_file"
    /\ Cardinality(last.args.names) = 2
    /\ \E n \in last.args.names : n \notin DOMAIN index.definitions
    /\ \E n \in last.args.names : n \in DOMAIN index.definitions

\* C15: clear_all postcondition.  After clear_all() both maps are empty, and a
\* find_definition or a get_indexed_files that follows it returns nothing,
\* whatever came before.
C15_ClearAllPostcondition ==
    [][/\ last'.op = "clear_all" =>
              /\ index'.definitions = << >>
              /\ index'.file_definitions = << >>
              /\ \A n \in Names, fam \in Families : find_definition(index', n, fam) = << >>
       /\ (last.op = "clear_all" /\ last'.op = "find_definition") => last'.ret.symbols = << >>
       /\ (last.op = "clear_all" /\ last'.op = "get_indexed_files") => last'.ret.files = << >>
       ]_vars

\* An index with records was saved and then cleared, and a query followed.
C15_Witness ==
    /\ last.op \in {"find_definition", "get_indexed_files"}
    /\ rt.phase = "cleared"
    /\ rt.saved.definitions # << >>
    /\ index = EmptyIndex

\* C16: delete_index is idempotent.  delete_index(root) succeeds; afterwards the
\* snapshot file of root does not exist and every other file is as it was; with
\* no file present nothing changes, so a second call in a row changes nothing;
\* the live index is never modified.
C16_DeleteIdempotent ==
    [][last'.op = "delete_index" =>
          LET path == get_index_path(last'.args.root_path)
          IN  /\ last'.ret = OkUnit
              /\ disk'[path] = NoFile
              /\ \A other \in IndexPaths \ {path} : disk'[other] = disk[other]
              /\ disk[path] = NoFile => disk' = disk
              /\ (last.op = "delete_index" /\ last.args.root_path = last'.args.root_path)
                     => disk' = disk
              /\ index' = index]_vars

\* delete_index was called twice in a row for a root whose snapshot file the
\* first call removed, while the live index held records.
C16_Witness ==
    /\ last.op = "delete_index"
    /\ last.args.repeats
    /\ ~last.args.existed
    /\ index.definitions # << >>

\* The records of a stored snapshot, as (name, position) pairs.
StoredRecords(persisted) ==
    UNION {{<<n, i>> : i \in DOMAIN persisted.definitions[n]} : n \in DOMAIN persisted.definitions}

\* C17: get_index_metadata is read-only.  It changes neither the live index nor
\* the snapshot file; it returns none when no snapshot file exists and on a
\* version mismatch, and otherwise a summary whose file_count is the number of
\* file_definitions keys and whose definition_count is the number of records
\* of the stored snapshot.
C17_MetadataReadOnly ==
    [][last'.op = "get_index_metadata" =>
          LET path == get_index_path(last'.args.root_path)
              metadata == last'.ret.metadata
          IN  /\ index' = index
              /\ disk' = disk
              /\ last'.ret.ok
              /\ ~exists(path) => IsNone(metadata)
              /\ exists(path) =>
                     LET persisted == from_str(disk[path][1])
                     IN  IF persisted.version # INDEX_VERSION THEN IsNone(metadata)
                         ELSE /\ ~IsNone(metadata)
                              /\ metadata[1].file_count =
                                     Cardinality(DOMAIN persisted.file_definitions)
                              /\ metadata[1].definition_count =
                                     Cardinality(StoredRecords(persisted))]_vars

\* A summary was returned for a snapshot in which one name has records of two
\* files.
C17_Witness ==
    /\ last.op = "get_index_metadata"
    /\ ~IsNone(last.ret.metadata)
    /\ last.ret.metadata[1].file_count = 2
    /\ last.ret.metadata[1].definition_count
           > Cardinality(DOMAIN from_str(disk[get_index_path(last.args.root_path)][1]).definitions)

(***************************************************************************)
(* Properties of the reference resolver (SpecR)                            *)
(***************************************************************************)
\* The family of the language that a file extension stands for.
ExtensionFamily(ext) ==
    CASE ext \in {"ts", "tsx", "js", "jsx", "mjs", "cjs"} -> "js_family"
      [] ext \in {"c", "h", "cpp", "cc", "cxx", "hpp", "hxx"} -> "c_family"
      [] ext = "py" -> "python"
      [] ext = "rs" -> "rust"
      [] ext = "go" -> "go"
      [] ext = "java" -> "java"
      [] OTHER -> "none"

Extension(path) == path.name[Len(path.name)]

\* The leaves of the project file at a path that span the position of a
\* returned record.
LeavesAt(s) ==
    UNION { {n \in f.leaves :
                /\ n.row = s.start_line - 1
                /\ n.column <= s.start_column - 1
                /\ s.start_column - 1 < n.column + (n.end_byte - n.start_byte)} :
            f \in {g \in project : g.path = s.file_path} }

\* C18: reference family isolation and record shape.  Every record that
\* find_references_hybrid(name, fam, root) returns comes from a file whose
\* extension stands for a language of family fam, and has kind "reference",
\* the queried name, lang_family fam, start_line = end_line = the number of a
\* line of that file, start_column = 1 + the byte offset of an occurrence of
\* the name in that line, end_column = start_column + the length of the name.
C18_ReferenceRecords ==
    last.op = "find_references_hybrid" =>
        \A i \in DOMAIN last.ret.symbols :
            LET s == last.ret.symbols[i]
                name == last.args.symbol_name
            IN  /\ ExtensionFamily(Extension(s.file_path)) = last.args.lang_family
                /\ s.kind = "reference"
                /\ s.name = name
                /\ s.lang_family = last.args.lang_family
                /\ s.start_line = s.end_line
                /\ s.end_column = s.start_column + Len(name)
                /\ \E f \in project :
                       /\ f.path = s.file_path
                       /\ LET lines == SplitLines(f.text, << >>)
                          IN  /\ s.start_line \in DOMAIN lines
                              /\ s.start_column >= 1
                              /\ Slice(lines[s.start_line], s.start_column - 1, Len(name)) = name

\* A search of the rust family in a project that also holds a python file with
\* the name returned one record, of an occurrence on the second line.
C18_Witness ==
    /\ last.op = "find_references_hybrid"
    /\ last.args.lang_family = "rust"
    /\ SourceFiles.py_member \in project
    /\ Len(last.ret.symbols) = 1
    /\ last.ret.symbols[1].start_line = 2
    /\ last.ret.symbols[1].start_column = 14

\* A node that is, or lies inside, a string literal or a comment.
LiesInStringOrComment(n) ==
    \E k \in {n.kind} \cup Range(n.ancestors) :
        k \in { "string", "template_string", "raw_string_literal",
                "interpreted_string_literal", "string_literal", "string_fragment",
                "string_content", "comment", "line_comment", "block_comment" }

\* C19: string and comment exclusion.  No returned record is at an occurrence
\* whose syntax node lies inside a string literal or a comment; a search for
\* foo in a project that holds only  const foo = "foo is here";  returns one
\* record, the declared identifier.
C19_StringCommentExclusion ==
    last.op = "find_references_hybrid" =>
        /\ \A i \in DOMAIN last.ret.symbols :
               \A n \in LeavesAt(last.ret.symbols[i]) : ~LiesInStringOrComment(n)
        /\ ( /\ project = {SourceFiles.ts_string}
             /\ last.args.symbol_name = <<"f", "o", "o">>
             /\ last.args.lang_family = "js_family" )
               => /\ Len(last.ret.symbols) = 1
                  /\ last.ret.symbols[1].start_line = 1
                  /\ last.ret.symbols[1].start_column = 7

\* A search for foo over the two script files, whose texts hold the name five
\* times (in a string, in a template string, in a comment), returned two records.
C19_Witness ==
    /\ last.op = "find_references_hybrid"
    /\ project = {SourceFiles.ts_string, SourceFiles.js_comment}
    /\ last.args.symbol_name = <<"f", "o", "o">>
    /\ Len(last.ret.symbols) = 2

MemberAccessKinds ==
    {"member_expression", "attribute", "field_expression", "selector_expression", "field_access"}

\* The member name of an access, and the object of one.
IsMemberName(n) ==
    /\ n.ancestors # << >>
    /\ n.ancestors[1] \in MemberAccessKinds
    /\ n.field \in {"property", "attribute", "field"}

IsAccessedObject(n) ==
    /\ n.ancestors # << >>
    /\ n.ancestors[1] \in MemberAccessKinds
    /\ n.field \in {"object", "value", "operand", "argument"}

\* An identifier that stands for itself on a side of an assignment.
IsFreeStanding(n) ==
    /\ n.kind = "identifier"
    /\ n.ancestors # << >>
    /\ n.ancestors[1] \in {"assignment_expression", "assignment", "expression_list"}

\* C20: member-name exclusion.  In every supported language no returned record
\* is at the member name of a property, field or attribute access, while the
\* accessed object and a free-standing use of the name are returned; a search
\* for value in a project that holds only  obj.value = value;  returns one
\* record, the right-hand value.
C20_MemberNameExclusion ==
    last.op = "find_references_hybrid" =>
        /\ \A i \in DOMAIN last.ret.symbols :
               \A n \in LeavesAt(last.ret.symbols[i]) : ~IsMemberName(n)
        /\ \A f \in project :
               ( /\ f.path.root = last.args.root_path
                 /\ ExtensionFamily(Extension(f.path)) = last.args.lang_family
                 /\ f.readable /\ f.parses )
                   => \A n \in f.leaves :
                          ( /\ Slice(f.text, n.start_byte, n.end_byte - n.start_byte)
                                   = last.args.symbol_name
                            /\ IsAccessedObject(n) \/ IsFreeStanding(n) )
                              => \E i \in DOMAIN last.ret.symbols :
                                     /\ last.ret.symbols[i].file_path = f.path
                                     /\ last.ret.symbols[i].start_line = n.row + 1
                                     /\ last.ret.symbols[i].start_column = n.column + 1
        /\ ( /\ project = {SourceFiles.ts_member}
             /\ last.args.symbol_name = <<"v", "a", "l", "u", "e">>
             /\ last.args.lang_family = "js_family" )
               => /\ Len(last.ret.symbols) = 1
                  /\ last.ret.symbols[1].start_column = 13

\* A search for value over a Go file and a Java file, each holding
\* obj.value = value, returned the one record of the right-hand value.
C20_Witness ==
    /\ last.op = "find_references_hybrid"
    /\ project = {SourceFiles.go_member, SourceFiles.java_member}
    /\ last.args.symbol_name = <<"v", "a", "l", "u", "e">>
    /\ last.args.lang_family = "go"
    /\ Len(last.ret.symbols) = 1
    /\ last.ret.symbols[1].start_column = 24

\* The imported name and the alias of an import specifier that renames.
IsAlias(n) ==
    /\ n.ancestors # << >>
    /\ n.ancestors[1] = "import_specifier"
    /\ n.field = "alias"

IsImportedName(n) ==
    /\ n.ancestors # << >>
    /\ n.ancestors[1] = "import_specifier"
    /\ n.field = "name"

IsRenamedOriginal(f, n) == IsImportedName(n) /\ \E m \in f.leaves : IsAlias(m)

\* The searched file f holds a record at the position of its leaf n.
ReturnedAt(f, n) ==
    \E i \in DOMAIN last.ret.symbols :
        /\ last.ret.symbols[i].file_path = f.path
        /\ last.ret.symbols[i].start_line = n.row + 1
        /\ last.ret.symbols[i].start_column = n.column + 1

\* The files that a search of last.args reads and validates.
SearchedFiles ==
    {f \in project : /\ f.path.root = last.args.root_path
                     /\ ExtensionFamily(Extension(f.path)) = last.args.lang_family
                     /\ f.readable /\ f.parses}

TextOf(f, n) == Slice(f.text, n.start_byte, n.end_byte - n.start_byte)

\* C21: import-rename rule.  In an import specifier that renames, the
\* original name is never returned and the alias is returned; in a project
\* that holds only  import { original as renamed } from "x"; renamed();  a
\* search for original returns no record and a search for renamed returns
\* two, the import binding and the call.
C21_ImportRename ==
    last.op = "find_references_hybrid" =>
        /\ \A f \in SearchedFiles : \A n \in f.leaves :
               /\ IsRenamedOriginal(f, n) => ~ReturnedAt(f, n)
               /\ (IsAlias(n) /\ TextOf(f, n) = last.args.symbol_name) => ReturnedAt(f, n)
        /\ ( /\ project = {RuleFiles.ts_import_rename}
             /\ last.args.lang_family = "js_family" )
               => /\ last.args.symbol_name = <<"o", "r", "i", "g", "i", "n", "a", "l">>
                        => last.ret.symbols = << >>
                  /\ last.args.symbol_name = <<"r", "e", "n", "a", "m", "e", "d">>
                        => /\ Len(last.ret.symbols) = 2
                           /\ {last.ret.symbols[i].start_column : i \in {1, 2}} = {22, 42}

\* A search for renamed over the renaming import and its call returned the
\* binding and the call.
C21_Witness ==
    /\ last.op = "find_references_hybrid"
    /\ project = {RuleFiles.ts_import_rename}
    /\ last.args.symbol_name = <<"r", "e", "n", "a", "m", "e", "d">>
    /\ Len(last.ret.symbols) = 2

\* Language identifiers that get_lang_family does not list.
OtherLangIds == {"text", "", "tsx", "C", "Python", "kotlin", "c_family", "unknown"}

IsolatedLangs == {"python", "rust", "go", "java"}

\* C22: language-family partition.  get_lang_family gives c and cpp the same
\* family, typescript and javascript the same family, python, rust, go and
\* java each a family that no other listed language has, and every other
\* identifier the family "unknown"; a reference search of a family reads the
\* files of every language of that family and of no other.
C22_LangFamilyPartition ==
    /\ get_lang_family("c") = get_lang_family("cpp")
    /\ get_lang_family("typescript") = get_lang_family("javascript")
    /\ get_lang_family("c") # get_lang_family("typescript")
    /\ \A a \in IsolatedLangs :
           /\ get_lang_family(a) \notin {get_lang_family("c"), get_lang_family("typescript"), "unknown"}
           /\ \A b \in IsolatedLangs \ {a} : get_lang_family(a) # get_lang_family(b)
    /\ "unknown" \notin {get_lang_family(l) : l \in RegisteredLangs}
    /\ \A l \in OtherLangIds : get_lang_family(l) = "unknown"
    /\ last.op = "find_references_hybrid" =>
           \A i \in DOMAIN last.ret.symbols :
               \E l \in RegisteredLangs :
                   /\ get_lang_family(l) = last.args.lang_family
                   /\ get_lang_id_from_path(last.ret.symbols[i].file_path) = Some(l)

\* A search of the family of c over a C file and a C++ file returned a record
\* of each.
C22_Witness ==
    /\ last.op = "find_references_hybrid"
    /\ last.args.lang_family = get_lang_family("c")
    /\ project = {SourceFiles.c_member, SourceFiles.cpp_member}
    /\ {get_lang_id_from_path(last.ret.symbols[i].file_path) : i \in DOMAIN last.ret.symbols}
           = {Some("c"), Some("cpp")}

\* The root paths whose names are compared.
HashRoots == RootPaths \cup {"/project/b"}

DigestPrefix(r) == SubSeq(Sha256(r), 1, HashBytes)

C24_ParseOutsideLock ==
    [][\A t \in Tasks :
          (task[t].pc = "if_parse" /\ task'[t].pc \in {"if_insert", "if_release"})
              => lock.writer # t]_vars

\* C25: the reference resolver works outside the lock.  No
\* find_references_hybrid command holds the read guard while it searches,
\* reads and parses, so that a command that waits for the write guard beside
\* a running search, with no other guard out, can take it.
C25_SearchOutsideLock ==
    \A r \in Tasks :
        task[r].pc = "fr_searching" =>
            /\ r \notin lock.readers
            /\ \A w \in Tasks \ {r} :
                   (task[w].pc \in WriteWaitPcs /\ lock.writer = 0 /\ lock.readers \subseteq {r})
                       => write_available(lock)

\* C26: save_index takes a consistent snapshot and does its I/O unlocked.
\* The two maps it copies are those of the one index state it reads under its
\* read guard, a state in which the reverse-index invariant holds; when it
\* writes the file it holds no guard, and the document written holds those maps.
C26_SaveSnapshot ==
    [][\A t \in Tasks :
          /\ (task[t].pc = "sv_reading" /\ task'[t].pc = "sv_drop")
                 => /\ t \in lock.readers
                    /\ lock.writer = 0
                    /\ AsIndex(task'[t].persisted[1]) = index
                    /\ ReverseIndexHolds(index)
          /\ (task[t].pc = "sv_write" /\ task'[t].pc = "idle")
                 => LET written == disk'[get_index_path(task[t].root_path)]
                    IN  /\ t \notin lock.readers
                        /\ lock.writer # t
                        /\ written # NoFile
                        /\ AsIndex(from_str(written[1])) = AsIndex(task[t].persisted[1])
                        /\ ReverseIndexHolds(AsIndex(from_str(written[1])))]_vars

\* A save is at its file write, with definitions in its snapshot, while
\* another command holds the write guard and has changed the live index.
C26_Witness ==
    \E t, w \in Tasks :
        /\ task[t].pc = "sv_write"
        /\ lock.writer = w
        /\ w # t
        /\ task[t].persisted[1].definitions # << >>
        /\ AsIndex(task[t].persisted[1]) # index

\* C27: the parallel phase of the batch holds no lock and touches no shared
\* state.  The step of the workers is taken with no guard held by the batch,
\* changes neither the index nor the lock, and leaves the batch waiting for
\* the write guard; a step of the batch changes the index only at its merge,
\* with the write guard held, and the guard it drops ends the command.
C27_BatchParallelPhase ==
    [][\A t \in Tasks :
          /\ (task[t].pc = "bt_parallel" /\ task'[t] # task[t])
                 => /\ lock.writer # t /\ t \notin lock.readers
                    /\ index' = index /\ lock' = lock /\ disk' = disk
                    /\ task'[t].pc = "bt_write"
                    /\ task'[t].def_results = par_filter_map(task[t].files)
          /\ (task[t].pc \in {"bt_parallel", "bt_write", "bt_merge"}
                 /\ task'[t] # task[t] /\ index' # index)
                 => /\ task[t].pc = "bt_merge"
                    /\ lock.writer = t /\ lock'.writer = t
          /\ (task[t].pc = "bt_merge" /\ lock'.writer # t) => task'[t].pc = "idle"]_vars

\* The workers of a batch have parsed and the batch waits for the write guard
\* that another command holds, which has changed the live index meanwhile.
C27_Witness ==
    \E t, w \in Tasks :
        /\ task[t].pc = "bt_write"
        /\ task[t].def_results # << >>
        /\ lock.writer = w
        /\ w # t
        /\ index # committed

\* index_file called on each tuple of files in list order, starting from idx.
RECURSIVE index_each(_, _)
index_each(idx, files) ==
    IF files = << >> THEN idx
    ELSE index_each(index_file(idx, Head(files).file_path, Head(files).content,
                               Head(files).lang_id),
                    Tail(files))

\* The same records under every name, as sets, and the same file_definitions.
SameIndex(idx1, idx2) ==
    LET a == idx1
        b == idx2
    IN  /\ a.file_definitions = b.file_definitions
        /\ DOMAIN a.definitions = DOMAIN b.definitions
        /\ \A n \in DOMAIN a.definitions :
               Range(a.definitions[n]) = Range(b.definitions[n])

\* C28 as stated: the batch leaves the index that index_file leaves when it is
\* called on every tuple of the list in order, skipped tuples included.
C28_Original ==
    [][last'.op = "index_files_batch" =>
          SameIndex(index', index_each(index, last'.args.files))]_vars

\* C28: batch/single equivalence.  The batch leaves the index that index_file
\* leaves when it is called, in list order, on the tuples of the list whose
\* language is supported and whose content parses; the other tuples, which
\* index_file answers by clearing the path, change nothing in the batch.
C28_BatchSingleEquivalence ==
    [][last'.op = "index_files_batch" =>
          SameIndex(index', index_each(index, SelectSeq(last'.args.files, IsParsed)))]_vars

\* A batch held a parsed tuple and then a skipped tuple for one path: the
\* records of the parsed tuple are in the index, where index_file on the
\* second tuple would have cleared them.
C28_Witness ==
    /\ last.op = "index_files_batch"
    /\ Len(last.args.files) = 2
    /\ last.args.files[1].file_path = last.args.files[2].file_path
    /\ IsParsed(last.args.files[1])
    /\ ~IsParsed(last.args.files[2])
    /\ HoldsDefinitionsOf(index, last.args.files[1].file_path, last.args.files[1])
    /\ NamesOf(index, last.args.files[1].file_path) # {}

\* The element of a keyed element that n is or lies in: the key is followed
\* by the colon, the value follows it.
InKeyedElement(n) ==
    \E i \in {1, 2} : i \in DOMAIN n.ancestors /\ n.ancestors[i] = "keyed_element"

\* A key or binding: the key of a pair, the key of a keyed element, a
\* shorthand-property identifier, the field name of a struct literal.
IsKeyOrBinding(f, n) ==
    \/ n.kind = "shorthand_property_identifier"
    \/ /\ n.ancestors # << >>
       /\ \/ n.ancestors[1] = "pair" /\ n.field = "key"
          \/ n.ancestors[1] = "field_initializer" /\ n.field = "field"
          \/ InKeyedElement(n) /\ Slice(f.text, n.end_byte, 1) = <<":">>

\* The value side of a pair, of a keyed element or of a field initializer.
IsValueSide(f, n) ==
    /\ n.kind = "identifier"
    /\ n.ancestors # << >>
    /\ \/ n.ancestors[1] \in {"pair", "field_initializer"} /\ n.field = "value"
       \/ InKeyedElement(n) /\ Slice(f.text, n.start_byte - 2, 1) = <<":">>

\* C29: key/binding exclusion.  No returned record is at the key of a pair, at
\* the key of a keyed element, at a shorthand-property identifier or at the
\* field name of a struct literal, and the value side of such a pair is
\* returned when it is an identifier equal to the name.
C29_KeyBindingExclusion ==
    last.op = "find_references_hybrid" =>
        \A f \in SearchedFiles : \A n \in f.leaves :
            /\ IsKeyOrBinding(f, n) => ~ReturnedAt(f, n)
            /\ (IsValueSide(f, n) /\ TextOf(f, n) = last.args.symbol_name) => ReturnedAt(f, n)

\* A node that lies in a string or a comment, is the member name of an access
\* or is a key or binding.
RejectedAsListed(f, n) ==
    \/ LiesInStringOrComment(n)
    \/ IsMemberName(n)
    \/ IsKeyOrBinding(f, n)

\* An identifier-kind node of a searched file whose text is the name.
IsCandidate(f, n) ==
    /\ TextOf(f, n) = last.args.symbol_name
    /\ \E l \in RegisteredLangs :
           /\ get_lang_id_from_path(f.path) = Some(l)
           /\ n.kind \in valid_kinds(l)

\* C30 as stated: a candidate that none of the listed rules rejects, the last
\* being the original name of a renaming import, is returned; the binding of
\* import { foo } from "x"  is returned for foo.
C30_Original ==
    last.op = "find_references_hybrid" =>
        \A f \in SearchedFiles : \A n \in f.leaves :
            (IsCandidate(f, n) /\ ~RejectedAsListed(f, n) /\ ~IsRenamedOriginal(f, n))
                => ReturnedAt(f, n)

\* C30: the rejection rules are exhaustive.  A candidate that lies in no
\* string or comment and is no member name, no key or binding and not the
\* imported name of an import specifier, renamed or not, is returned; the
\* imported name of an import specifier is never returned, so that a search
\* for foo over  import { foo } from "x";  alone returns nothing.
C30_RejectionRulesExhaustive ==
    last.op = "find_references_hybrid" =>
        /\ \A f \in SearchedFiles : \A n \in f.leaves :
               /\ (IsCandidate(f, n) /\ ~RejectedAsListed(f, n) /\ ~IsImportedName(n))
                      => ReturnedAt(f, n)
               /\ IsImportedName(n) => ~ReturnedAt(f, n)
        /\ ( /\ project = {RuleFiles.ts_import}
             /\ last.args.symbol_name = <<"f", "o", "o">> )
               => last.ret.symbols = << >>

\* A search for foo over the import without renaming and a declaration of foo
\* returned the declared identifier alone.
C30_Witness ==
    /\ last.op = "find_references_hybrid"
    /\ project = {RuleFiles.ts_import, SourceFiles.ts_string}
    /\ last.args.symbol_name = <<"f", "o", "o">>
    /\ last.args.lang_family = "js_family"
    /\ Len(last.ret.symbols) = 1
    /\ last.ret.symbols[1].file_path = SourceFiles.ts_string.path

\* A letter, a digit or the underscore.
IsWordChar(c) ==
    c \in { "a", "b", "c", "d", "e", "f", "g", "h", "i", "j", "k", "l", "m",
            "n", "o", "p", "q", "r", "s", "t", "u", "v", "w", "x", "y", "z",
            "A", "B", "C", "D", "E", "F", "G", "H", "I", "J", "K", "L", "M",
            "N", "O", "P", "Q", "R", "S", "T", "U", "V", "W", "X", "Y", "Z",
            "0", "1", "2", "3", "4", "5", "6", "7", "8", "9", "_" }

\* The columns of a line where the name stands with no word character before
\* it and none after it.
WordBoundedOccurrences(line, name) ==
    {c \in 0..(Len(line) - Len(name)) :
        /\ Slice(line, c, Len(name)) = name
        /\ c = 0 \/ ~IsWordChar(line[c])
        /\ c + Len(name) = Len(line) \/ ~IsWordChar(line[c + Len(name) + 1])}

IsPassedOver(f) ==
    \/ IsNone(get_lang_id_from_path(f.path))
    \/ ~f.readable
    \/ ~f.parses

C33_IndexIndependence ==
    [][last'.op = "find_references_hybrid" =>
          /\ index'.definitions = index.definitions
          /\ index'.file_definitions = index.file_definitions
          /\ \A i \in DOMAIN last'.ret.symbols :
                 /\ last'.ret.symbols[i].kind = "reference"
                 /\ \E f \in project : f.path = last'.ret.symbols[i].file_path]_vars

\* A search for foo returned a reference while the index holds definitions of
\* foo in the family of the search.
C33_Witness ==
    /\ last.op = "find_references_hybrid"
    /\ last.args.lang_family = "js_family"
    /\ Len(last.ret.symbols) = 1
    /\ "foo" \in DOMAIN index.definitions
    /\ \E i \in DOMAIN index.definitions["foo"] :
           index.definitions["foo"][i].lang_family = "js_family"

\* C34: whatever the interleaving of the per-file workers, search_content returns
\* at most max_results file results, each with at most max_matches_per_file
\* matches (and at least one), and every reported line number is at least 1.
C34_SearchCaps ==
    search.phase = "returned" =>
        /\ Len(search.results) <= search.max_results
        /\ \A i \in DOMAIN search.results :
               /\ Len(search.results[i].matches) <= search.max_matches_per_file
               /\ \A j \in DOMAIN search.results[i].matches :
                      search.results[i].matches[j].line_number >= 1

\* A search returned with both caps biting: more workers found matches than
\* max_results admits, and a returned file has more matching lines than
\* max_matches_per_file.
C34_Witness ==
    /\ search.phase = "returned"
    /\ Cardinality({entry \in DOMAIN search.workers :
                       ~IsNone(search.workers[entry].result)}) > search.max_results
    /\ Len(search.results) = search.max_results
    /\ \E i \in DOMAIN search.results :
           /\ search.results[i].file_path = LinesOfFoo.path
           /\ Len(search.results[i].matches) = search.max_matches_per_file
           /\ search.results[i].matches[Len(search.results[i].matches)].line_number > 1

\* The kinds a definition record can carry.
DefinitionKinds ==
    { "function", "class", "struct", "enum", "trait", "interface", "method",
      "type", "const", "static", "symbol" }

\* C35: every record that index_file or index_files_batch stores has a kind among
\* the eleven definition kinds, the kind being the domain word of the capture tag
\* (symbol for a tag without one), and never reference; every record that
\* find_references_hybrid returns has kind reference.
C35_KindPartition ==
    /\ \A n \in DOMAIN index.definitions : \A i \in DOMAIN index.definitions[n] :
           /\ index.definitions[n][i].kind \in DefinitionKinds
           /\ index.definitions[n][i].kind # "reference"
           /\ \E l \in RegisteredLangs : \E p \in DOMAIN get_definition_query(l) :
                  /\ get_lang_family(l) = index.definitions[n][i].lang_family
                  /\ get_definition_query(l)[p].tag[1] = index.definitions[n][i].kind
    /\ \A l \in RegisteredLangs : \A p \in DOMAIN get_definition_query(l) :
           get_symbol_kind(get_definition_query(l)[p].tag) = get_definition_query(l)[p].tag[1]
    /\ get_symbol_kind(<<"unknown">>) = "symbol"
    /\ last.op = "find_references_hybrid" =>
           \A i \in DOMAIN last.ret.symbols : last.ret.symbols[i].kind = "reference"

\* A search returned a reference while the index holds a function and a class.
C35_Witness ==
    /\ last.op = "find_references_hybrid"
    /\ last.ret.symbols # << >>
    /\ \E n \in DOMAIN index.definitions : \E i \in DOMAIN index.definitions[n] :
           index.definitions[n][i].kind = "class"
    /\ \E n \in DOMAIN index.definitions : \E i \in DOMAIN index.definitions[n] :
           index.definitions[n][i].kind = "function"

\* C36: no definitions[name] list holds two records equal in all fields; each
\* definition site of a file is recorded once, also when the site satisfies more
\* than one alternative of the definition pattern.
C36_NoDuplicateDefinitions ==
    \A n \in DOMAIN index.definitions :
        \A i, j \in DOMAIN index.definitions[n] :
            index.definitions[n][i] = index.definitions[n][j] => i = j

\* The positions of a save_index invocation.
SavePcs == {"sv_read", "sv_reading", "sv_drop", "sv_write"}

\* C37: concurrent saves keep the newest snapshot.  When a save_index writes the
\* snapshot file and no other save_index is in progress, the file holds the
\* index state captured by the save that took its snapshot last: an older
\* snapshot has not overwritten a newer one.
C37_NewestSnapshotKept ==
    [][\A t \in Tasks :
          (/\ task[t].pc = "sv_write"
           /\ task'[t].pc = "idle"
           /\ \A u \in Tasks \ {t} : task[u].pc \notin SavePcs)
          => AsIndex(from_str(disk'[get_index_path(task[t].root_path)][1])) = rt.saved]_vars

\* C38: load_index never deletes a current-version snapshot.  The file that
\* load_index removes after a version mismatch is the stale file it read, never a
\* snapshot of the current version that a concurrent save_index has written.
C38_LoadRemovesStaleOnly ==
    [][\A t \in Tasks :
          (/\ task[t].pc = "ld_remove"
           /\ task'[t].pc = "idle"
           /\ exists(get_index_path(task[t].root_path)))
          => from_str(disk[get_index_path(task[t].root_path)][1]).version # INDEX_VERSION]_vars

====
